---- MODULE Spec2Model ----
(***************************************************************************)
(* Technical-indicator module of MineInvest                                *)
(* (src/frontend-react/src/components/PriceChart/indicators/Index.js):     *)
(* calculateSMA, calculateEMA, calculateRSI, calculateMACD and             *)
(* calculateBollingerBands, as pure functions over a price series.         *)
(*                                                                         *)
(* Numbers.  A JavaScript number is modelled as a fraction [n, d] in       *)
(* lowest terms with d > 0, or one of the three IEEE-754 special values    *)
(* d = 0: n = 1 is Infinity, n = -1 is -Infinity, n = 0 is NaN.  The       *)
(* arithmetic follows IEEE-754 on the special values (x/0, Inf - Inf,      *)
(* 0 * Inf, ...); on finite values it is exact, so the rounding of a       *)
(* 64-bit double is not part of the model.  Math.sqrt is the square root   *)
(* rounded down to two decimals.                                           *)
(*                                                                         *)
(* The time-series input adapter (formatChartData of PriceChart and its     *)
(* inline copy) is modelled over raw records whose fields are JavaScript   *)
(* values: strings are sequences of characters, parsed by ParseFloat.      *)
(*                                                                         *)
(* Arrays are 0-based in the source and 1-based here: At(a, i) is a[i].    *)
(* Reading a property of a[i] for i outside the array throws a TypeError   *)
(* (a[i] is undefined), which ends the call.                               *)
(***************************************************************************)
EXTENDS Integers, Sequences, FiniteSets, TLC

VARIABLES data, call, ret, raw, formatted, priceChart, tradingScreen, tradingModal, app

vars == <<data, call, ret, raw, formatted, priceChart, tradingScreen, tradingModal, app>>

\* the indicator call and its series; the adapter's input and output; the
\* PriceChart component instance
indicatorVars == <<data, call, ret>>

adapterVars == <<raw, formatted>>

chartVars == <<priceChart>>

screenVars == <<tradingScreen, tradingModal, app>>

(* ------------------------------ bounds --------------------------------- *)

MaxLen == 4

MaxClose == 2

MaxPeriod == 3

MaxMult == 2

(* ------------------------------ numbers -------------------------------- *)

Abs(x) == IF x < 0 THEN 0 - x ELSE x

Sgn(x) == IF x < 0 THEN 0 - 1 ELSE IF x > 0 THEN 1 ELSE 0

RECURSIVE GCD(_, _)
GCD(a, b) == IF b = 0 THEN a ELSE GCD(b, a % b)

NaN == [n |-> 0, d |-> 0]

Infinity == [n |-> 1, d |-> 0]

SignedInf(s) == [n |-> s, d |-> 0]

Norm(n, d) ==
    IF n = 0 THEN [n |-> 0, d |-> 1]
    ELSE LET g == GCD(Abs(n), Abs(d))
         IN  [n |-> (Sgn(d) * n) \div g, d |-> Abs(d) \div g]

Num(i) == [n |-> i, d |-> 1]

IsNaN(x) == x.d = 0 /\ x.n = 0

IsFinite(x) == x.d > 0

IsZero(x) == x.d > 0 /\ x.n = 0

Neg(x) == [n |-> 0 - x.n, d |-> x.d]

Add(x, y) ==
    IF IsNaN(x) \/ IsNaN(y) THEN NaN
    ELSE IF x.d = 0 /\ y.d = 0 THEN (IF x.n = y.n THEN x ELSE NaN)
    ELSE IF x.d = 0 THEN x
    ELSE IF y.d = 0 THEN y
    ELSE Norm(x.n * y.d + y.n * x.d, x.d * y.d)

Sub(x, y) == Add(x, Neg(y))

Mul(x, y) ==
    IF IsNaN(x) \/ IsNaN(y) THEN NaN
    ELSE IF x.d = 0 \/ y.d = 0
         THEN (IF IsZero(x) \/ IsZero(y) THEN NaN ELSE SignedInf(Sgn(x.n) * Sgn(y.n)))
    ELSE Norm(x.n * y.n, x.d * y.d)

\* x / y; a zero divisor is +0 (every divisor of the module is a period, a
\* count or a sum of non-negative terms).
Div(x, y) ==
    IF IsNaN(x) \/ IsNaN(y) THEN NaN
    ELSE IF y.d = 0 THEN (IF x.d = 0 THEN NaN ELSE Num(0))
    ELSE IF y.n = 0 THEN (IF x.n = 0 THEN NaN ELSE SignedInf(Sgn(x.n)))
    ELSE IF x.d = 0 THEN SignedInf(Sgn(x.n) * Sgn(y.n))
    ELSE Norm(x.n * y.d, x.d * y.n)

\* x <= y, x >= y, x > y, x < y of JavaScript: false when either side is NaN.
Leq(x, y) ==
    IF IsNaN(x) \/ IsNaN(y) THEN FALSE
    ELSE IF x.d = 0 /\ y.d = 0 THEN x.n <= y.n
    ELSE x.n * y.d <= y.n * x.d

Geq(x, y) == Leq(y, x)

Gt(x, y) == ~IsNaN(x) /\ ~IsNaN(y) /\ ~Leq(x, y)

Lt(x, y) == Gt(y, x)

RECURSIVE ISqrt(_, _, _)
\* the largest k in lo..hi with k * k <= v  (lo * lo <= v < (hi + 1)^2)
ISqrt(lo, hi, v) ==
    IF lo >= hi THEN lo
    ELSE LET mid == (lo + hi + 1) \div 2
         IN  IF mid * mid <= v THEN ISqrt(mid, hi, v) ELSE ISqrt(lo, mid - 1, v)

\* Math.sqrt: NaN for a negative or NaN argument, Infinity for Infinity.
Sqrt(x) ==
    IF IsNaN(x) \/ x.n < 0 THEN NaN
    ELSE IF x.d = 0 THEN Infinity
    ELSE LET v == (x.n * 10000) \div x.d
         IN  Norm(ISqrt(0, v, v), 100)

(* ------------------------------ arrays --------------------------------- *)

At(a, i) == a[i + 1]

\* a[i] is undefined
OOB(a, i) == i < 0 \/ i >= Len(a)

Push(a, x) == Append(a, x)

Point(t, v) == [time |-> t, value |-> v]

\* Array.prototype.findIndex(item => item.time === t): first index, -1 if none
FindIndex(a, t) ==
    IF \E i \in 0..(Len(a) - 1) : At(a, i).time = t
    THEN CHOOSE i \in 0..(Len(a) - 1) :
            /\ At(a, i).time = t
            /\ \A j \in 0..(i - 1) : At(a, j).time # t
    ELSE 0 - 1

(* --------------------------- call outcomes ----------------------------- *)

Ok(v) == [status |-> "ok", error |-> "none", value |-> v]

\* reading a property of undefined
TypeError == [status |-> "throw", error |-> "TypeError", value |-> <<>>]

(* ---------------------------- calculateSMA ------------------------------ *)

RECURSIVE SMAWindow(_, _, _, _, _)
\* for (let j = 0; j < period; j++) sum += data[i - j].close
SMAWindow(d, i, period, j, sum) ==
    IF j >= period THEN Ok(sum)
    ELSE IF OOB(d, i - j) THEN TypeError
    ELSE SMAWindow(d, i, period, j + 1, Add(sum, Num(At(d, i - j).close)))

RECURSIVE SMALoop(_, _, _, _)
\* for (let i = 0; i < data.length; i++) { if (i < period - 1) continue; ... }
SMALoop(d, period, i, result) ==
    IF i >= Len(d) THEN Ok(result)
    ELSE IF i < period - 1 THEN SMALoop(d, period, i + 1, result)
    ELSE LET s == SMAWindow(d, i, period, 0, Num(0))
         IN  IF s.status = "throw" THEN TypeError
             ELSE SMALoop(d, period, i + 1,
                          Push(result, Point(At(d, i).time, Div(s.value, Num(period)))))

\* calculateSMA with the warm-up test written  i < period  (first point lost)
calculateSMASkipsOneMore(d, period) ==
    LET r == SMALoop(d, period, 0, <<>>)
    IN  IF r.status = "ok" /\ Len(r.value) > 0 THEN Ok(Tail(r.value)) ELSE r

calculateSMA(d, period) == SMALoop(d, period, 0, <<>>)

(* ---------------------------- calculateEMA ------------------------------ *)

RECURSIVE EMASeed(_, _, _, _)
\* for (let i = 0; i < period; i++) sum += data[i].close
EMASeed(d, period, i, sum) ==
    IF i >= period THEN Ok(sum)
    ELSE IF OOB(d, i) THEN TypeError
    ELSE EMASeed(d, period, i + 1, Add(sum, Num(At(d, i).close)))

\* ema = (x - ema) * multiplier + ema
Smooth(x, ema, multiplier) == Add(Mul(Sub(x, ema), multiplier), ema)

RECURSIVE EMALoop(_, _, _, _, _)
\* for (let i = period; i < data.length; i++) { ema = ...; result.push(...) }
EMALoop(d, multiplier, i, ema, result) ==
    IF i >= Len(d) THEN result
    ELSE LET e == Smooth(Num(At(d, i).close), ema, multiplier)
         IN  EMALoop(d, multiplier, i + 1, e, Push(result, Point(At(d, i).time, e)))

\* calculateEMA with the multiplier written  2 / period
calculateEMAWrongMultiplier(d, period) ==
    LET multiplier == Div(Num(2), Num(period))
        seed == EMASeed(d, period, 0, Num(0))
    IN  IF seed.status = "throw" THEN TypeError
        ELSE IF OOB(d, period - 1) THEN TypeError
        ELSE LET ema == Div(seed.value, Num(period))
             IN  Ok(EMALoop(d, multiplier, period, ema,
                            <<Point(At(d, period - 1).time, ema)>>))

calculateEMA(d, period) ==
    LET multiplier == Div(Num(2), Num(period + 1))
        seed == EMASeed(d, period, 0, Num(0))
    IN  IF seed.status = "throw" THEN TypeError
        ELSE IF OOB(d, period - 1) THEN TypeError
        ELSE LET ema == Div(seed.value, Num(period))
             IN  Ok(EMALoop(d, multiplier, period, ema,
                            <<Point(At(d, period - 1).time, ema)>>))

(* ---------------------------- calculateRSI ------------------------------ *)

RECURSIVE RSISeed(_, _, _, _, _)
\* for (let i = 1; i <= period; i++) { change = ...; if (change > 0) gains += change; else losses -= change; }
RSISeed(d, period, i, gains, losses) ==
    IF i > period THEN Ok([gains |-> gains, losses |-> losses])
    ELSE IF OOB(d, i) \/ OOB(d, i - 1) THEN TypeError
    ELSE LET change == Sub(Num(At(d, i).close), Num(At(d, i - 1).close))
         IN  IF Gt(change, Num(0))
             THEN RSISeed(d, period, i + 1, Add(gains, change), losses)
             ELSE RSISeed(d, period, i + 1, gains, Sub(losses, change))

\* rs = avgGain / avgLoss; rsi = 100 - (100 / (1 + rs))
RSIValue(avgGain, avgLoss) ==
    Sub(Num(100), Div(Num(100), Add(Num(1), Div(avgGain, avgLoss))))

\* one output point, with the averages it was computed from
RSIStep(t, avgGain, avgLoss) ==
    [time |-> t, value |-> RSIValue(avgGain, avgLoss),
     avgGain |-> avgGain, avgLoss |-> avgLoss]

RECURSIVE RSILoopFullWeight(_, _, _, _, _, _)
\* the smoothing loop with the previous average weighted by period
RSILoopFullWeight(d, period, i, avgGain, avgLoss, result) ==
    IF i >= Len(d) THEN result
    ELSE LET change == Sub(Num(At(d, i).close), Num(At(d, i - 1).close))
             gain == IF Gt(change, Num(0)) THEN change ELSE Num(0)
             loss == IF Lt(change, Num(0)) THEN Neg(change) ELSE Num(0)
             g == Div(Add(Mul(avgGain, Num(period)), gain), Num(period))
             l == Div(Add(Mul(avgLoss, Num(period)), loss), Num(period))
         IN  RSILoopFullWeight(d, period, i + 1, g, l,
                               Push(result, RSIStep(At(d, i).time, g, l)))

RECURSIVE RSILoop(_, _, _, _, _, _)
\* for (let i = period + 1; i < data.length; i++) { Wilder smoothing; push }
RSILoop(d, period, i, avgGain, avgLoss, result) ==
    IF i >= Len(d) THEN result
    ELSE LET change == Sub(Num(At(d, i).close), Num(At(d, i - 1).close))
             gain == IF Gt(change, Num(0)) THEN change ELSE Num(0)
             loss == IF Lt(change, Num(0)) THEN Neg(change) ELSE Num(0)
             g == Div(Add(Mul(avgGain, Num(period - 1)), gain), Num(period))
             l == Div(Add(Mul(avgLoss, Num(period - 1)), loss), Num(period))
         IN  RSILoop(d, period, i + 1, g, l, Push(result, RSIStep(At(d, i).time, g, l)))

\* the steps of calculateRSI: its output points with avgGain and avgLoss
RSITrace(d, period) ==
    LET seed == RSISeed(d, period, 1, Num(0), Num(0))
    IN  IF seed.status = "throw" THEN TypeError
        ELSE IF OOB(d, period) THEN TypeError
        ELSE LET avgGain == Div(seed.value.gains, Num(period))
                 avgLoss == Div(seed.value.losses, Num(period))
             IN  Ok(RSILoop(d, period, period + 1, avgGain, avgLoss,
                            <<RSIStep(At(d, period).time, avgGain, avgLoss)>>))

calculateRSI(d, period) ==
    LET t == RSITrace(d, period)
    IN  IF t.status = "throw" THEN TypeError
        ELSE Ok([i \in 1..Len(t.value) |-> Point(t.value[i].time, t.value[i].value)])

(* ---------------------------- calculateMACD ----------------------------- *)

RECURSIVE MACDLinePositional(_, _, _, _)
\* the MACD line with the two EMAs joined by array position (fastEMA[i])
MACDLinePositional(fastEMA, slowEMA, i, macdLine) ==
    IF i >= Len(slowEMA) THEN macdLine
    ELSE IF ~OOB(fastEMA, i)
         THEN MACDLinePositional(fastEMA, slowEMA, i + 1,
                                 Push(macdLine, Point(At(slowEMA, i).time,
                                                      Sub(At(fastEMA, i).value, At(slowEMA, i).value))))
         ELSE MACDLinePositional(fastEMA, slowEMA, i + 1, macdLine)

RECURSIVE MACDLine(_, _, _, _)
\* for (i over slowEMA) { fastValue = fastEMA.find(item => item.time === slowEMA[i].time);
\*                        if (fastValue) macdLine.push({time, value: fastValue.value - slowEMA[i].value}) }
MACDLine(fastEMA, slowEMA, i, macdLine) ==
    IF i >= Len(slowEMA) THEN macdLine
    ELSE LET f == FindIndex(fastEMA, At(slowEMA, i).time)
         IN  IF f >= 0
             THEN MACDLine(fastEMA, slowEMA, i + 1,
                           Push(macdLine, Point(At(slowEMA, i).time,
                                                Sub(At(fastEMA, f).value, At(slowEMA, i).value))))
             ELSE MACDLine(fastEMA, slowEMA, i + 1, macdLine)

RECURSIVE SignalSeedSkipsFirst(_, _, _, _)
\* the seed sum with macdLine[0] left out
SignalSeedSkipsFirst(macdLine, signalPeriod, i, sum) ==
    IF i < signalPeriod /\ i < Len(macdLine)
    THEN SignalSeedSkipsFirst(macdLine, signalPeriod, i + 1,
                              IF i = 0 THEN sum ELSE Add(sum, At(macdLine, i).value))
    ELSE sum

RECURSIVE SignalSeed(_, _, _, _)
\* for (let i = 0; i < signalPeriod && i < macdLine.length; i++) sum += macdLine[i].value
SignalSeed(macdLine, signalPeriod, i, sum) ==
    IF i < signalPeriod /\ i < Len(macdLine)
    THEN SignalSeed(macdLine, signalPeriod, i + 1, Add(sum, At(macdLine, i).value))
    ELSE sum

Min(a, b) == IF a < b THEN a ELSE b

RECURSIVE SignalLoopKeyedBehind(_, _, _, _, _)
\* the signal loop with its points keyed to macdLine[i - 1].time
SignalLoopKeyedBehind(macdLine, multiplier, i, ema, signalLine) ==
    IF i >= Len(macdLine) THEN signalLine
    ELSE LET e == Smooth(At(macdLine, i).value, ema, multiplier)
         IN  SignalLoopKeyedBehind(macdLine, multiplier, i + 1, e,
                                   Push(signalLine, Point(At(macdLine, i - 1).time, e)))

RECURSIVE SignalLoop(_, _, _, _, _)
\* for (let i = signalPeriod; i < macdLine.length; i++) { ema = ...; signalLine.push(...) }
SignalLoop(macdLine, multiplier, i, ema, signalLine) ==
    IF i >= Len(macdLine) THEN signalLine
    ELSE LET e == Smooth(At(macdLine, i).value, ema, multiplier)
         IN  SignalLoop(macdLine, multiplier, i + 1, e,
                        Push(signalLine, Point(At(macdLine, i).time, e)))

Green == "rgba(16, 185, 129, 0.5)"

Red == "rgba(239, 68, 68, 0.5)"

RECURSIVE HistogramStrictSign(_, _, _, _)
\* the histogram with the colour test written  > 0
HistogramStrictSign(macdLine, signalLine, i, histogram) ==
    IF i >= Len(signalLine) THEN histogram
    ELSE LET m == FindIndex(macdLine, At(signalLine, i).time)
         IN  IF m >= 0
             THEN LET v == Sub(At(macdLine, m).value, At(signalLine, i).value)
                  IN  HistogramStrictSign(macdLine, signalLine, i + 1,
                                          Push(histogram,
                                               [time |-> At(signalLine, i).time, value |-> v,
                                                color |-> IF Gt(v, Num(0)) THEN Green ELSE Red]))
             ELSE HistogramStrictSign(macdLine, signalLine, i + 1, histogram)

RECURSIVE Histogram(_, _, _, _)
\* for (i over signalLine) { macdValue = macdLine.find(item => item.time === signalLine[i].time);
\*                           if (macdValue) histogram.push({time, value, color}) }
Histogram(macdLine, signalLine, i, histogram) ==
    IF i >= Len(signalLine) THEN histogram
    ELSE LET m == FindIndex(macdLine, At(signalLine, i).time)
         IN  IF m >= 0
             THEN LET v == Sub(At(macdLine, m).value, At(signalLine, i).value)
                  IN  Histogram(macdLine, signalLine, i + 1,
                                Push(histogram,
                                     [time |-> At(signalLine, i).time, value |-> v,
                                      color |-> IF Geq(v, Num(0)) THEN Green ELSE Red]))
             ELSE Histogram(macdLine, signalLine, i + 1, histogram)

\* calculateMACD with the first signal point read at macdLine[signalPeriod]
calculateMACDKeyedOneLater(d, fastPeriod, slowPeriod, signalPeriod) ==
    LET fastEMA == calculateEMA(d, fastPeriod)
        slowEMA == calculateEMA(d, slowPeriod)
    IN  IF fastEMA.status = "throw" \/ slowEMA.status = "throw" THEN TypeError
        ELSE LET macdLine == MACDLine(fastEMA.value, slowEMA.value, 0, <<>>)
                 multiplier == Div(Num(2), Num(signalPeriod + 1))
                 sum == SignalSeed(macdLine, signalPeriod, 0, Num(0))
                 ema == Div(sum, Num(Min(signalPeriod, Len(macdLine))))
             IN  IF OOB(macdLine, signalPeriod) THEN TypeError
                 ELSE LET signalLine ==
                              SignalLoop(macdLine, multiplier, signalPeriod, ema,
                                         <<Point(At(macdLine, signalPeriod - 1).time, ema)>>)
                      IN  Ok([macd |-> macdLine, signal |-> signalLine,
                              histogram |-> Histogram(macdLine, signalLine, 0, <<>>)])

calculateMACD(d, fastPeriod, slowPeriod, signalPeriod) ==
    LET fastEMA == calculateEMA(d, fastPeriod)
        slowEMA == calculateEMA(d, slowPeriod)
    IN  IF fastEMA.status = "throw" \/ slowEMA.status = "throw" THEN TypeError
        ELSE LET macdLine == MACDLine(fastEMA.value, slowEMA.value, 0, <<>>)
                 multiplier == Div(Num(2), Num(signalPeriod + 1))
                 sum == SignalSeed(macdLine, signalPeriod, 0, Num(0))
                 ema == Div(sum, Num(Min(signalPeriod, Len(macdLine))))
             IN  IF OOB(macdLine, signalPeriod - 1) THEN TypeError
                 ELSE LET signalLine ==
                              SignalLoop(macdLine, multiplier, signalPeriod, ema,
                                         <<Point(At(macdLine, signalPeriod - 1).time, ema)>>)
                      IN  Ok([macd |-> macdLine, signal |-> signalLine,
                              histogram |-> Histogram(macdLine, signalLine, 0, <<>>)])

(* ----------------------- calculateBollingerBands ------------------------ *)

RECURSIVE SumSquares(_, _, _, _, _, _)
\* for (let j = 0; j < period; j++) { diff = data[startIdx + j].close - middle[i].value; sumSquares += diff * diff }
SumSquares(d, startIdx, period, mean, j, sumSquares) ==
    IF j >= period THEN Ok(sumSquares)
    ELSE IF OOB(d, startIdx + j) THEN TypeError
    ELSE LET diff == Sub(Num(At(d, startIdx + j).close), mean)
         IN  SumSquares(d, startIdx, period, mean, j + 1, Add(sumSquares, Mul(diff, diff)))

RECURSIVE BandsLoopWindowOff(_, _, _, _, _, _, _)
\* the bands with the window start written  findIndex(...) - period
BandsLoopWindowOff(d, period, stdDev, middle, i, upper, lower) ==
    IF i >= Len(middle) THEN Ok([upper |-> upper, middle |-> middle, lower |-> lower])
    ELSE LET startIdx == FindIndex(d, At(middle, i).time) - period
             ss == SumSquares(d, startIdx, period, At(middle, i).value, 0, Num(0))
         IN  IF ss.status = "throw" THEN TypeError
             ELSE LET sd == Sqrt(Div(ss.value, Num(period)))
                      t == At(middle, i).time
                      m == At(middle, i).value
                  IN  BandsLoopWindowOff(d, period, stdDev, middle, i + 1,
                                         Push(upper, Point(t, Add(m, Mul(stdDev, sd)))),
                                         Push(lower, Point(t, Sub(m, Mul(stdDev, sd)))))

RECURSIVE BandsLoop(_, _, _, _, _, _, _)
\* for (i over middle) { startIdx = data.findIndex(d => d.time === middle[i].time) - period + 1; ... }
BandsLoop(d, period, stdDev, middle, i, upper, lower) ==
    IF i >= Len(middle) THEN Ok([upper |-> upper, middle |-> middle, lower |-> lower])
    ELSE LET startIdx == FindIndex(d, At(middle, i).time) - period + 1
             ss == SumSquares(d, startIdx, period, At(middle, i).value, 0, Num(0))
         IN  IF ss.status = "throw" THEN TypeError
             ELSE LET sd == Sqrt(Div(ss.value, Num(period)))
                      t == At(middle, i).time
                      m == At(middle, i).value
                  IN  BandsLoop(d, period, stdDev, middle, i + 1,
                                Push(upper, Point(t, Add(m, Mul(stdDev, sd)))),
                                Push(lower, Point(t, Sub(m, Mul(stdDev, sd)))))

\* the bands with + and - exchanged (upper = middle - k*sd)
calculateBollingerBandsSwapped(d, period, stdDev) ==
    LET middle == calculateSMA(d, period)
    IN  IF middle.status = "throw" THEN TypeError
        ELSE BandsLoop(d, period, Num(0 - stdDev), middle.value, 0, <<>>, <<>>)

calculateBollingerBands(d, period, stdDev) ==
    LET middle == calculateSMA(d, period)
    IN  IF middle.status = "throw" THEN TypeError
        ELSE BandsLoop(d, period, Num(stdDev), middle.value, 0, <<>>, <<>>)

(* ----------------------------- the series ------------------------------- *)

\* time keys of a series of n points: n dates in ascending order, at most one
\* period skipped.  The functions are given a PriceSeries, whose time keys are
\* strictly increasing (series[i].time < series[i+1].time).
TimeKeys(n) ==
    {t \in [1..n -> 1..(n + 1)] : \A i \in 1..(n - 1) : t[i] < t[i + 1]}

Closes == 1..MaxClose

SeriesOfLen(n) ==
    {[i \in 1..n |-> [time |-> t[i], close |-> c[i]]] : t \in TimeKeys(n), c \in [1..n -> Closes]}

PriceSeries == UNION {SeriesOfLen(n) : n \in 0..MaxLen}

Periods == 1..MaxPeriod

Multipliers == (0 - 1)..MaxMult

(* --------------------------- the state machine -------------------------- *)

Args(fn, period, fastPeriod, slowPeriod, signalPeriod, stdDev) ==
    [fn |-> fn, period |-> period, fastPeriod |-> fastPeriod,
     slowPeriod |-> slowPeriod, signalPeriod |-> signalPeriod, stdDev |-> stdDev]

NoCall == Args("none", 0, 0, 0, 0, 0)

NoRet == [status |-> "none", error |-> "none", value |-> <<>>]

\* no adapter call: nothing read, nothing formatted
AdapterIdle ==
    /\ raw = <<>>
    /\ formatted = NoRet

\* error === null
NoError == "null"

\* a chart reference that is null: no chart, no series, no price lines
NoChart ==
    [current |-> FALSE, main |-> "none", volume |-> FALSE, lines |-> {}, priceLines |-> <<>>]

\* useState({ sma20: false, sma50: false, sma200: false, ema12: false, ema26: false, volume: true })
DefaultIndicators ==
    [sma20 |-> FALSE, sma50 |-> FALSE, sma200 |-> FALSE,
     ema12 |-> FALSE, ema26 |-> FALSE, volume |-> TRUE]

\* assetData without historical_data
NoAssetData == [loaded |-> FALSE, historical_data |-> <<>>]

\* a PriceChart instance as its first render finds it, given its assetData
NewPriceChart(assetData) ==
    [mounted |-> TRUE, assetData |-> assetData, error |-> NoError,
     chartType |-> "candlestick", indicators |-> DefaultIndicators,
     chartRef |-> NoChart, liveCharts |-> 0, cleanup |-> FALSE,
     formattedData |-> NoRet, calls |-> {}, escaped |-> FALSE,
     savedDrawings |-> <<>>, drawingMode |-> "null"]

\* no PriceChart is mounted
ChartIdle == priceChart = [NewPriceChart(NoAssetData) EXCEPT !.mounted = FALSE]

\* null, distinct from every number
Null == [n |-> 0, d |-> 0 - 1]

\* no search pending: searchTimeoutRef holds no armed timer
NoTimer == [armed |-> FALSE, query |-> <<>>]

\* setTimeout(() => handleSearch(searchQuery), 1000), the query being captured
Timer(query) == [armed |-> TRUE, query |-> query]

\* selectedAsset === null
NoAsset == <<>>

\* localStorage.getItem(key) === null
NoItem == [type |-> "null", text |-> <<>>]

\* currentSimulation === null: currentSimulation?.id is undefined
NoSimulation == [id |-> [type |-> "undefined", text |-> <<>>]]

\* a TradingScreen as its first render and first effect run leave it
NewTradingScreen ==
    [searchQuery |-> <<>>, searchResults |-> {}, searching |-> FALSE,
     showResults |-> FALSE, selectedAsset |-> NoAsset, loading |-> FALSE,
     timer |-> NoTimer, requests |-> <<>>, assetRequests |-> <<>>]

\* no request posted by the modal
NoRequest == [endpoint |-> "none", desired_amount |-> NaN]

\* a TradingModal that is not shown: its useState defaults, for given props
NewTradingModal(action, balance, needsConversion) ==
    [show |-> FALSE, action |-> action, balance |-> balance,
     needsConversion |-> needsConversion, amount |-> <<>>, loading |-> FALSE,
     error |-> NoError, convertedPrice |-> Null, loadingConversion |-> FALSE,
     request |-> NoRequest, toast |-> "none"]

\* localStorage without the two keys of the App
NoStorage == [currentSimulationId |-> NoItem, lastScreen |-> "null"]

\* the App's useState defaults over a given localStorage
NewApp(storage) ==
    [currentScreen |-> "list", currentSimulation |-> NoSimulation, loading |-> FALSE,
     selectedTicker |-> NoAsset, storage |-> storage, restore |-> FALSE,
     reloads |-> <<>>]

\* no screen of the React App is mounted
ScreensIdle ==
    /\ tradingScreen = NewTradingScreen
    /\ tradingModal = NewTradingModal("buy", <<>>, FALSE)
    /\ app = NewApp(NoStorage)

Init ==
    /\ data \in PriceSeries
    /\ call = NoCall
    /\ ret = NoRet
    /\ AdapterIdle
    /\ ChartIdle
    /\ ScreensIdle

CallSMA ==
    /\ call.fn = "none"
    /\ \E p \in Periods :
          /\ call' = Args("calculateSMA", p, 0, 0, 0, 0)
          /\ ret' = calculateSMA(data, p)
    /\ UNCHANGED <<data, adapterVars, chartVars, screenVars>>

CallEMA ==
    /\ call.fn = "none"
    /\ \E p \in Periods :
          /\ call' = Args("calculateEMA", p, 0, 0, 0, 0)
          /\ ret' = calculateEMA(data, p)
    /\ UNCHANGED <<data, adapterVars, chartVars, screenVars>>

CallRSI ==
    /\ call.fn = "none"
    /\ \E p \in Periods :
          /\ call' = Args("calculateRSI", p, 0, 0, 0, 0)
          /\ ret' = calculateRSI(data, p)
    /\ UNCHANGED <<data, adapterVars, chartVars, screenVars>>

CallMACD ==
    /\ call.fn = "none"
    /\ \E f \in Periods, s \in Periods, g \in Periods :
          /\ call' = Args("calculateMACD", 0, f, s, g, 0)
          /\ ret' = calculateMACD(data, f, s, g)
    /\ UNCHANGED <<data, adapterVars, chartVars, screenVars>>

CallBollingerBands ==
    /\ call.fn = "none"
    /\ \E p \in Periods, k \in Multipliers :
          /\ call' = Args("calculateBollingerBands", p, 0, 0, 0, k)
          /\ ret' = calculateBollingerBands(data, p, k)
    /\ UNCHANGED <<data, adapterVars, chartVars, screenVars>>

\* the caller takes the result; the module keeps nothing of the call
Return ==
    /\ call.fn # "none"
    /\ call' = NoCall
    /\ ret' = NoRet
    /\ UNCHANGED <<data, adapterVars, chartVars, screenVars>>

Next ==
    \/ CallSMA
    \/ CallEMA
    \/ CallRSI
    \/ CallMACD
    \/ CallBollingerBands
    \/ Return

Spec == Init /\ [][Next]_vars

(* ======================= time-series input adapter ====================== *)

MaxRaw == 2

(* --------------------------- JavaScript values -------------------------- *)

JsString(chars) == [type |-> "string", text |-> chars]

JsNumber(chars) == [type |-> "number", text |-> chars]

Undefined == [type |-> "undefined", text |-> <<"u", "n", "d", "e", "f", "i", "n", "e", "d">>]

\* ToString(v), the first step of parseFloat(v)
ToStr(v) == v.text

Digits == <<"0", "1", "2", "3", "4", "5", "6", "7", "8", "9">>

IsDigit(c) == \E i \in 1..10 : Digits[i] = c

DigitVal(c) == (CHOOSE i \in 1..10 : Digits[i] = c) - 1

RECURSIVE ReadDigits(_, _, _)
\* the longest prefix of digits of s from position i: [seen, value]
ReadDigits(s, i, acc) ==
    IF i <= Len(s) /\ IsDigit(s[i])
    THEN ReadDigits(s, i + 1, [seen |-> TRUE, value |-> 10 * acc.value + DigitVal(s[i])])
    ELSE acc

InfinityText == <<"I", "n", "f", "i", "n", "i", "t", "y">>

StartsWith(s, prefix) ==
    Len(s) >= Len(prefix) /\ SubSeq(s, 1, Len(prefix)) = prefix

\* parseFloat on a string: optional sign, then Infinity or the longest prefix
\* of digits (whatever follows is ignored); NaN when there is neither.  The
\* strings of the model carry no fraction and no exponent.
ParseFloat(s) ==
    LET signed == Len(s) > 0 /\ s[1] \in {"-", "+"}
        sign == IF Len(s) > 0 /\ s[1] = "-" THEN 0 - 1 ELSE 1
        rest == IF signed THEN SubSeq(s, 2, Len(s)) ELSE s
        r == ReadDigits(rest, 1, [seen |-> FALSE, value |-> 0])
    IN  IF StartsWith(rest, InfinityText) THEN SignedInf(sign)
        ELSE IF r.seen THEN Num(sign * r.value)
        ELSE NaN

\* ToBoolean(v) is false: undefined, "", 0, NaN
Falsy(v) ==
    \/ v.type = "undefined"
    \/ v.type = "string" /\ v.text = <<>>
    \/ v.type = "number" /\ (IsZero(ParseFloat(v.text)) \/ IsNaN(ParseFloat(v.text)))

\* the days of a history long enough for the shortest moving averages
LongDays ==
    <<"2021-01-01", "2021-01-02", "2021-01-03", "2021-01-04", "2021-01-05",
      "2021-01-06", "2021-01-07", "2021-01-08", "2021-01-09", "2021-01-10",
      "2021-01-11", "2021-01-12", "2021-01-13", "2021-01-14", "2021-01-15",
      "2021-01-16", "2021-01-17", "2021-01-18", "2021-01-19", "2021-01-20">>

\* new Date(time).getTime() in days: NaN (Invalid Date) for a string that is no date
DateValue(time) ==
    IF time = "2020-01-01" THEN Num(18262)
    ELSE IF time = "2020-02-01" THEN Num(18293)
    ELSE IF \E i \in 1..Len(LongDays) : LongDays[i] = time
         THEN Num(18627 + (CHOOSE i \in 1..Len(LongDays) : LongDays[i] = time))
    ELSE NaN

(* ----------------------------- raw records ------------------------------ *)

DateString(day) == [type |-> "string", text |-> day]

\* a Date object; text is its day in ISO form, "Invalid Date" for new Date(NaN)
DateObject(day) == [type |-> "Date", text |-> day]

NoDate == [type |-> "undefined", text |-> ""]

\* a date given as a number (a timestamp)
DateNumber == [type |-> "number", text |-> "1577836800000"]

One == JsNumber(<<"1">>)

Two == JsNumber(<<"2">>)

\* a well-formed record of the history
GoodRecord(day, close) ==
    [isNull |-> FALSE, date |-> DateString(day),
     open |-> One, high |-> Two, low |-> One, close |-> close,
     volume |-> JsNumber(<<"5">>)]

\* historical_data[i] === null
NullRecord == [GoodRecord("2020-01-01", One) EXCEPT !.isNull = TRUE]

\* values of a price field that are no positive finite number
OddPrices ==
    {JsString(<<"a", "b", "c">>), Undefined, JsString(<<"-", "1">>), JsNumber(<<"0">>),
     JsString(<<"I", "n", "f", "i", "n", "i", "t", "y">>), JsString(<<"2", "x">>)}

OddVolumes ==
    {Undefined, JsString(<<"a", "b", "c">>), JsString(<<>>), JsNumber(<<"-", "1">>)}

OddDates ==
    {DateString("n/a"), DateObject("2020-02-01"), DateObject("Invalid Date"), NoDate, DateNumber}

\* the records of the model: well-formed ones on two days, and records that
\* differ from a well-formed one in one field
RawRecords ==
    LET good == GoodRecord("2020-01-01", One)
    IN  {GoodRecord(day, c) : day \in {"2020-01-01", "2020-02-01"}, c \in {One, Two}}
        \cup {[good EXCEPT !.close = v] : v \in OddPrices}
        \cup {[good EXCEPT !.open = JsString(<<"a", "b", "c">>)],
              [good EXCEPT !.high = Undefined],
              [good EXCEPT !.low = JsString(<<"-", "1">>)]}
        \cup {[good EXCEPT !.volume = v] : v \in OddVolumes}
        \cup {[good EXCEPT !.date = d] : d \in OddDates}
        \cup {NullRecord}

RawInputs == UNION {[1..n -> RawRecords] : n \in 0..MaxRaw}

(* --------------------------- formatChartData ---------------------------- *)

RangeError == [status |-> "throw", error |-> "RangeError", value |-> <<>>]

\* the callback of .map returned null
NullItem ==
    [null |-> TRUE, time |-> "", open |-> NaN, high |-> NaN, low |-> NaN,
     close |-> NaN, volume |-> NaN]

\* the callback of .map: item => { ...; return { time: dateStr, open: parseFloat(item.open), ... } }
MapItem(item) ==
    IF item.isNull THEN TypeError
    ELSE IF item.date.type = "Date" /\ item.date.text = "Invalid Date" THEN RangeError
    ELSE IF item.date.type \notin {"string", "Date"} THEN Ok(NullItem)
    ELSE Ok([null |-> FALSE,
             time |-> item.date.text,
             open |-> ParseFloat(ToStr(item.open)),
             high |-> ParseFloat(ToStr(item.high)),
             low |-> ParseFloat(ToStr(item.low)),
             close |-> ParseFloat(ToStr(item.close)),
             volume |-> IF Falsy(item.volume) THEN Num(0)
                        ELSE ParseFloat(ToStr(item.volume))])

RECURSIVE MapItems(_, _, _)
\* data.map(...): the items in order, ended by the first one that throws
MapItems(d, i, out) ==
    IF i >= Len(d) THEN Ok(out)
    ELSE LET m == MapItem(At(d, i))
         IN  IF m.status = "throw" THEN m ELSE MapItems(d, i + 1, Push(out, m.value))

\* the callback of .filter
KeepItem(item) ==
    IF item.null THEN FALSE
    ELSE ~IsNaN(item.open) /\ ~IsNaN(item.high) /\ ~IsNaN(item.low) /\ ~IsNaN(item.close)

\* an element of the formatted series
PricePoint(item) ==
    [time |-> item.time, open |-> item.open, high |-> item.high, low |-> item.low,
     close |-> item.close, volume |-> item.volume]

\* the comparator (a, b) => new Date(a.time) - new Date(b.time); sort takes a
\* NaN result as +0
Compare(a, b) ==
    LET v == Sub(DateValue(a.time), DateValue(b.time))
    IN  IF IsNaN(v) THEN 0 ELSE Sgn(v.n)

\* the comparator orders the elements of s consistently (ECMAScript: otherwise
\* the sort order is implementation-defined)
ConsistentComparator(s) ==
    \/ \A i \in 1..Len(s) : ~IsNaN(DateValue(s[i].time))
    \/ \A i, j, k \in 1..Len(s) :
          /\ (Compare(s[i], s[j]) = 0 /\ Compare(s[j], s[k]) = 0) => Compare(s[i], s[k]) = 0
          /\ (Compare(s[i], s[j]) < 0 /\ Compare(s[j], s[k]) = 0) => Compare(s[i], s[k]) < 0
          /\ (Compare(s[i], s[j]) = 0 /\ Compare(s[j], s[k]) < 0) => Compare(s[i], s[k]) < 0

RECURSIVE Insert(_, _)
\* x into the sorted s, after the elements that compare equal to it
Insert(s, x) ==
    IF s = <<>> THEN <<x>>
    ELSE IF Compare(x, s[Len(s)]) >= 0 THEN Append(s, x)
    ELSE Append(Insert(SubSeq(s, 1, Len(s) - 1), x), s[Len(s)])

RECURSIVE StableSort(_, _, _)
StableSort(s, i, out) ==
    IF i > Len(s) THEN out ELSE StableSort(s, i + 1, Insert(out, s[i]))

\* Array.prototype.sort: the stable order under a consistent comparator, any
\* order of the elements otherwise
SortOutcomes(s) ==
    IF ConsistentComparator(s) THEN {StableSort(s, 1, <<>>)}
    ELSE {[i \in 1..Len(s) |-> s[p[i]]] : p \in Permutations(1..Len(s))}

\* the outcomes of formatChartData(data): data.map(...).filter(...).sort(...)
formatChartData(d) ==
    LET mapped == MapItems(d, 0, <<>>)
    IN  IF mapped.status = "throw" THEN {mapped}
        ELSE LET kept == SelectSeq(mapped.value, KeepItem)
                 points == [i \in 1..Len(kept) |-> PricePoint(kept[i])]
             IN  {Ok(sorted) : sorted \in SortOutcomes(points)}

(* ------------------------ the adapter, on its own ----------------------- *)

IndicatorsIdle ==
    /\ data = <<>>
    /\ call = NoCall
    /\ ret = NoRet

InitAdapter ==
    /\ raw \in RawInputs
    /\ formatted = NoRet
    /\ IndicatorsIdle
    /\ ChartIdle
    /\ ScreensIdle

\* formatChartData(assetData.historical_data)
FormatChartData ==
    /\ formatted.status = "none"
    /\ formatted' \in formatChartData(raw)
    /\ UNCHANGED <<raw, indicatorVars, chartVars, screenVars>>

\* the inline copy of the same statement in the other PriceChart
FormatInline ==
    /\ formatted.status = "none"
    /\ formatted' \in formatChartData(raw)
    /\ UNCHANGED <<raw, indicatorVars, chartVars, screenVars>>

\* the series is used and dropped; the next render formats again
DropFormatted ==
    /\ formatted.status # "none"
    /\ formatted' = NoRet
    /\ UNCHANGED <<raw, indicatorVars, chartVars, screenVars>>

NextAdapter ==
    \/ FormatChartData
    \/ FormatInline
    \/ DropFormatted

SpecAdapter == InitAdapter /\ [][NextAdapter]_vars

(* ------------------- calculateMACD on an adapter series ------------------ *)

\* every close of the formatted series is a finite number
FiniteCloses(series) == \A i \in 1..Len(series) : IsFinite(series[i].close) /\ series[i].close.d = 1

\* the time and close of a formatted series, as the indicator functions read them
TimeAndClose(series) ==
    [i \in 1..Len(series) |-> [time |-> series[i].time, close |-> series[i].close.n]]

\* formatChartData has returned a series; it is the data of the indicator calls
InitAdapterSeries ==
    /\ raw \in RawInputs
    /\ formatted \in formatChartData(raw)
    /\ formatted.status = "ok"
    /\ FiniteCloses(formatted.value)
    /\ data = TimeAndClose(formatted.value)
    /\ call = NoCall
    /\ ret = NoRet
    /\ ChartIdle
    /\ ScreensIdle

NextAdapterSeries ==
    \/ CallMACD
    \/ Return

SpecAdapterSeries == InitAdapterSeries /\ [][NextAdapterSeries]_vars

(* ------------------ calls with a period that is no period --------------- *)

\* periods that are not positive
InvalidPeriods == (0 - MaxPeriod)..0

\* calculateSMA(data, period), period <= 0
CallSMAInvalid ==
    /\ call.fn = "none"
    /\ \E p \in InvalidPeriods :
          /\ call' = Args("calculateSMA", p, 0, 0, 0, 0)
          /\ ret' = calculateSMA(data, p)
    /\ UNCHANGED <<data, adapterVars, chartVars, screenVars>>

\* calculateEMA(data, period), period <= 0
CallEMAInvalid ==
    /\ call.fn = "none"
    /\ \E p \in InvalidPeriods :
          /\ call' = Args("calculateEMA", p, 0, 0, 0, 0)
          /\ ret' = calculateEMA(data, p)
    /\ UNCHANGED <<data, adapterVars, chartVars, screenVars>>

\* calculateRSI(data, period), period <= 0
CallRSIInvalid ==
    /\ call.fn = "none"
    /\ \E p \in InvalidPeriods :
          /\ call' = Args("calculateRSI", p, 0, 0, 0, 0)
          /\ ret' = calculateRSI(data, p)
    /\ UNCHANGED <<data, adapterVars, chartVars, screenVars>>

\* calculateMACD(data, fastPeriod, slowPeriod, signalPeriod), one of them <= 0
CallMACDInvalid ==
    /\ call.fn = "none"
    /\ \E bad \in InvalidPeriods, p \in Periods, q \in Periods, which \in 1..3 :
          LET f == IF which = 1 THEN bad ELSE p
              sl == IF which = 2 THEN bad ELSE IF which = 1 THEN p ELSE q
              g == IF which = 3 THEN bad ELSE q
          IN  /\ call' = Args("calculateMACD", 0, f, sl, g, 0)
              /\ ret' = calculateMACD(data, f, sl, g)
    /\ UNCHANGED <<data, adapterVars, chartVars, screenVars>>

\* calculateBollingerBands(data, period, stdDev), period <= 0
CallBollingerBandsInvalid ==
    /\ call.fn = "none"
    /\ \E p \in InvalidPeriods, k \in Multipliers :
          /\ call' = Args("calculateBollingerBands", p, 0, 0, 0, k)
          /\ ret' = calculateBollingerBands(data, p, k)
    /\ UNCHANGED <<data, adapterVars, chartVars, screenVars>>

NextInvalidPeriod ==
    \/ CallSMAInvalid
    \/ CallEMAInvalid
    \/ CallRSIInvalid
    \/ CallMACDInvalid
    \/ CallBollingerBandsInvalid
    \/ Return

SpecInvalidPeriod == Init /\ [][NextInvalidPeriod]_vars

(* ========================= PriceChart component ========================= *)

(* ----------- calculateSMA and calculateEMA of the component file -------- *)

RECURSIVE ChartSMAWindow(_, _, _, _, _)
\* for (let j = 0; j < period; j++) sum += data[i - j].close
ChartSMAWindow(d, i, period, j, sum) ==
    IF j >= period THEN Ok(sum)
    ELSE IF OOB(d, i - j) THEN TypeError
    ELSE ChartSMAWindow(d, i, period, j + 1, Add(sum, At(d, i - j).close))

RECURSIVE ChartSMALoop(_, _, _, _)
\* for (let i = 0; i < data.length; i++) { if (i < period - 1) continue; ... }
ChartSMALoop(d, period, i, result) ==
    IF i >= Len(d) THEN Ok(result)
    ELSE IF i < period - 1 THEN ChartSMALoop(d, period, i + 1, result)
    ELSE LET w == ChartSMAWindow(d, i, period, 0, Num(0))
         IN  IF w.status = "throw" THEN TypeError
             ELSE ChartSMALoop(d, period, i + 1,
                               Push(result, Point(At(d, i).time, Div(w.value, Num(period)))))

\* calculateSMA of the component file, on the formatted series
ChartCalculateSMA(d, period) == ChartSMALoop(d, period, 0, <<>>)

RECURSIVE ChartEMASeed(_, _, _, _)
\* for (let i = 0; i < period; i++) sum += data[i].close
ChartEMASeed(d, period, i, sum) ==
    IF i >= period THEN Ok(sum)
    ELSE IF OOB(d, i) THEN TypeError
    ELSE ChartEMASeed(d, period, i + 1, Add(sum, At(d, i).close))

RECURSIVE ChartEMALoop(_, _, _, _, _)
\* for (let i = period; i < data.length; i++) { ema = ...; result.push(...) }
ChartEMALoop(d, multiplier, i, ema, result) ==
    IF i >= Len(d) THEN result
    ELSE LET e == Smooth(At(d, i).close, ema, multiplier)
         IN  ChartEMALoop(d, multiplier, i + 1, e, Push(result, Point(At(d, i).time, e)))

\* calculateEMA of the component file, on the formatted series
ChartCalculateEMA(d, period) ==
    LET multiplier == Div(Num(2), Num(period + 1))
        seed == ChartEMASeed(d, period, 0, Num(0))
    IN  IF seed.status = "throw" THEN TypeError
        ELSE IF OOB(d, period - 1) THEN TypeError
        ELSE LET ema == Div(seed.value, Num(period))
             IN  Ok(ChartEMALoop(d, multiplier, period, ema,
                                 <<Point(At(d, period - 1).time, ema)>>))

(* ------ calculateSMA and calculateEMA local to the first PriceChart ----- *)

RECURSIVE LocalSMAWindow(_, _, _, _, _)
\* for (let j = 0; j < period; j++) sum += data[i - j].close
LocalSMAWindow(d, i, period, j, sum) ==
    IF j >= period THEN Ok(sum)
    ELSE IF OOB(d, i - j) THEN TypeError
    ELSE LocalSMAWindow(d, i, period, j + 1, Add(sum, At(d, i - j).close))

RECURSIVE LocalSMALoopNullsOneMore(_, _, _, _)
\* the loop with the warm-up test written  i < period
LocalSMALoopNullsOneMore(d, period, i, result) ==
    IF i >= Len(d) THEN Ok(result)
    ELSE IF i < period
    THEN LocalSMALoopNullsOneMore(d, period, i + 1, Push(result, Point(At(d, i).time, Null)))
    ELSE LET w == LocalSMAWindow(d, i, period, 0, Num(0))
         IN  IF w.status = "throw" THEN TypeError
             ELSE LocalSMALoopNullsOneMore(d, period, i + 1,
                      Push(result, Point(At(d, i).time, Div(w.value, Num(period)))))

RECURSIVE LocalSMALoop(_, _, _, _)
\* for (let i = 0; i < data.length; i++) {
\*     if (i < period - 1) { result.push({ time: data[i].time, value: null }); continue; } ... }
LocalSMALoop(d, period, i, result) ==
    IF i >= Len(d) THEN Ok(result)
    ELSE IF i < period - 1
    THEN LocalSMALoop(d, period, i + 1, Push(result, Point(At(d, i).time, Null)))
    ELSE LET w == LocalSMAWindow(d, i, period, 0, Num(0))
         IN  IF w.status = "throw" THEN TypeError
             ELSE LocalSMALoop(d, period, i + 1,
                               Push(result, Point(At(d, i).time, Div(w.value, Num(period)))))

\* item => item.value !== null
NotNull(item) == item.value # Null

\* calculateSMA of the first PriceChart: return result.filter(item => item.value !== null)
LocalCalculateSMA(d, period) ==
    LET r == LocalSMALoop(d, period, 0, <<>>)
    IN  IF r.status = "throw" THEN TypeError ELSE Ok(SelectSeq(r.value, NotNull))

RECURSIVE LocalEMASeed(_, _, _, _)
\* for (let i = 0; i < period; i++) sum += data[i].close
LocalEMASeed(d, period, i, sum) ==
    IF i >= period THEN Ok(sum)
    ELSE IF OOB(d, i) THEN TypeError
    ELSE LocalEMASeed(d, period, i + 1, Add(sum, At(d, i).close))

RECURSIVE LocalEMALoop(_, _, _, _, _)
\* for (let i = period; i < data.length; i++) { ema = ...; result.push(...) }
LocalEMALoop(d, multiplier, i, ema, result) ==
    IF i >= Len(d) THEN result
    ELSE LET e == Add(Mul(Sub(At(d, i).close, ema), multiplier), ema)
         IN  LocalEMALoop(d, multiplier, i + 1, e, Push(result, Point(At(d, i).time, e)))

\* calculateEMA of the first PriceChart
LocalCalculateEMA(d, period) ==
    LET multiplier == Div(Num(2), Num(period + 1))
        seed == LocalEMASeed(d, period, 0, Num(0))
    IN  IF seed.status = "throw" THEN TypeError
        ELSE IF OOB(d, period - 1) THEN TypeError
        ELSE LET ema == Div(seed.value, Num(period))
             IN  Ok(LocalEMALoop(d, multiplier, period, ema,
                                 <<Point(At(d, period - 1).time, ema)>>))

(* ------------------------------ the props ------------------------------- *)

\* records of a history: well-formed ones, one whose close is no number, and
\* null
ChartRecords ==
    {GoodRecord("2020-01-01", One), GoodRecord("2020-02-01", Two),
     [GoodRecord("2020-01-01", One) EXCEPT !.close = JsString(<<"a", "b", "c">>)],
     NullRecord}

\* twenty well-formed records, one a day
LongHistory == [i \in 1..Len(LongDays) |-> GoodRecord(LongDays[i], One)]

ChartHistories ==
    UNION {[1..n -> ChartRecords] : n \in 0..MaxRaw} \cup {LongHistory}

\* the assetData prop: without historical_data, or with a history
AssetProps ==
    {NoAssetData} \cup {[loaded |-> TRUE, historical_data |-> h] : h \in ChartHistories}

ChartTypes == {"candlestick", "line", "area"}

IndicatorKeys == {"sma20", "sma50", "sma200", "ema12", "ema26", "volume"}

(* ----------------------------- addIndicators ---------------------------- *)

\* the lines of addIndicators, in the order of its if statements
Overlays ==
    <<[key |-> "sma20", fn |-> "calculateSMA", period |-> 20],
      [key |-> "sma50", fn |-> "calculateSMA", period |-> 50],
      [key |-> "sma200", fn |-> "calculateSMA", period |-> 200],
      [key |-> "ema12", fn |-> "calculateEMA", period |-> 12],
      [key |-> "ema26", fn |-> "calculateEMA", period |-> 26]>>

\* calculateSMA(formattedData, 20), ..., calculateEMA(formattedData, 26)
CalculateOverlay(o, formattedData) ==
    IF o.fn = "calculateSMA" THEN ChartCalculateSMA(formattedData, o.period)
    ELSE ChartCalculateEMA(formattedData, o.period)

RECURSIVE addIndicators(_, _, _, _, _)
\* if (indicators.sma20) { const sma20 = calculateSMA(formattedData, 20);
\*                         if (sma20.length > 0) { series = chart.addLineSeries(...); ... } } ...
\* lines: the line series added to the chart; calls: the indicator calls made
addIndicators(indicators, formattedData, i, lines, calls) ==
    IF i > Len(Overlays) THEN [status |-> "ok", lines |-> lines, calls |-> calls]
    ELSE LET o == Overlays[i]
         IN  IF ~indicators[o.key]
             THEN addIndicators(indicators, formattedData, i + 1, lines, calls)
             ELSE LET r == CalculateOverlay(o, formattedData)
                      made == calls \cup {[fn |-> o.fn, period |-> o.period]}
                  IN  IF r.status = "throw"
                      THEN [status |-> "throw", lines |-> lines, calls |-> made]
                      ELSE addIndicators(indicators, formattedData, i + 1,
                                         IF Len(r.value) > 0 THEN lines \cup {o.key} ELSE lines,
                                         made)

(* ------------------------------ drawings -------------------------------- *)

\* drawings kept at most (the clicks of the model stop there)
MaxDrawings == 2

\* { type: 'horizontal', price: Number(price), ... }
HorizontalLine(price) == [type |-> "horizontal", price |-> price]

IsHorizontal(drawing) == drawing.type = "horizontal"

\* restoreDrawings(mainSeries): the price lines it creates on the new main
\* series, one mainSeries.createPriceLine({ price: drawing.price, ... }) for
\* each horizontal drawing
restoreDrawings(savedDrawings) ==
    LET horizontal == SelectSeq(savedDrawings, IsHorizontal)
    IN  [i \in 1..Len(horizontal) |-> horizontal[i].price]

(* ---------------------------- the main effect --------------------------- *)

NoHistoricalData == "No historical data available for this asset"

NoValidData == "No valid chart data available"

\* `Chart error: ${err.message}`
ChartError(kind) ==
    IF kind = "RangeError" THEN "Chart error: Invalid time value"
    ELSE "Chart error: Cannot read properties of undefined"

\* the container div is rendered (chartContainerRef.current is set): neither
\* the error alert nor the spinner is
ContainerMounted(st) == st.error = NoError /\ st.assetData.loaded

\* chartRef.current.remove(); chartRef.current = null
RemoveChart(st) ==
    IF st.chartRef.current
    THEN [st EXCEPT !.chartRef = NoChart, !.liveCharts = @ - 1]
    ELSE st

\* the function the last run of the effect returned, if it returned one
RunCleanup(st) ==
    IF st.cleanup THEN [RemoveChart(st) EXCEPT !.cleanup = FALSE] ELSE st

\* catch (err) { setError(`Chart error: ${err.message}`) }
Catch(st, kind) == [st EXCEPT !.error = ChartError(kind), !.escaped = FALSE]

\* the try block from formatChartData on, without the test of an empty series
TryBlockNoEmptyTest(st, formattedData) ==
    IF formattedData.status = "throw"
    THEN Catch([st EXCEPT !.formattedData = formattedData, !.calls = {}], formattedData.error)
    ELSE LET added == addIndicators(st.indicators, formattedData.value, 1, {}, {})
             drawn == [st EXCEPT !.formattedData = formattedData,
                                 !.calls = added.calls,
                                 !.chartRef = [current |-> TRUE, main |-> st.chartType,
                                               volume |-> st.indicators.volume,
                                               lines |-> added.lines,
                                               priceLines |-> <<>>]]
         IN  IF added.status = "throw" THEN Catch(drawn, "TypeError")
             ELSE [drawn EXCEPT !.chartRef.priceLines = restoreDrawings(st.savedDrawings),
                                !.cleanup = TRUE]

\* the try block from formatChartData on: formattedData is what the adapter
\* gave.  The chart library is taken to accept every call.
TryBlock(st, formattedData) ==
    IF formattedData.status = "throw"
    THEN Catch([st EXCEPT !.formattedData = formattedData, !.calls = {}], formattedData.error)
    ELSE IF Len(formattedData.value) = 0
    THEN [st EXCEPT !.formattedData = formattedData, !.calls = {}, !.error = NoValidData]
    ELSE LET added == addIndicators(st.indicators, formattedData.value, 1, {}, {})
             drawn == [st EXCEPT !.formattedData = formattedData,
                                 !.calls = added.calls,
                                 !.chartRef = [current |-> TRUE, main |-> st.chartType,
                                               volume |-> st.indicators.volume,
                                               lines |-> added.lines,
                                               priceLines |-> <<>>]]
         IN  IF added.status = "throw" THEN Catch(drawn, "TypeError")
             ELSE [drawn EXCEPT !.chartRef.priceLines = restoreDrawings(st.savedDrawings),
                                !.cleanup = TRUE]

\* the main chart effect, run after a render: the states it can leave.
\* formattedData and calls are those of the last run that got past the test of
\* the container.
MainEffect(st) ==
    IF ~ContainerMounted(st) THEN {st}
    ELSE IF Len(st.assetData.historical_data) = 0
    THEN {[st EXCEPT !.error = NoHistoricalData, !.formattedData = NoRet, !.calls = {}]}
    ELSE LET cleared == [RemoveChart(st) EXCEPT !.error = NoError]
             created == [cleared EXCEPT !.chartRef = [NoChart EXCEPT !.current = TRUE],
                                        !.liveCharts = @ + 1]
         IN  {TryBlock(created, f) : f \in formatChartData(st.assetData.historical_data)}

\* a render whose effect dependencies changed: the cleanup of the last run,
\* then the effect
Rerun(st) == MainEffect(RunCleanup(st))

\* ChartControls is rendered
ControlsShown == priceChart.mounted /\ ContainerMounted(priceChart)

InitChart ==
    /\ \E a \in AssetProps : priceChart \in MainEffect(NewPriceChart(a))
    /\ IndicatorsIdle
    /\ AdapterIdle
    /\ ScreensIdle

\* the parent passes another assetData (or symbol)
SetAssetData ==
    /\ priceChart.mounted
    /\ \E a \in AssetProps : priceChart' \in Rerun([priceChart EXCEPT !.assetData = a])
    /\ UNCHANGED <<indicatorVars, adapterVars, screenVars>>

\* toggleIndicator(indicator)
ToggleIndicator ==
    /\ ControlsShown
    /\ \E k \in IndicatorKeys :
          priceChart' \in Rerun([priceChart EXCEPT !.indicators[k] = ~@])
    /\ UNCHANGED <<indicatorVars, adapterVars, screenVars>>

\* setChartType(type)
SetChartType ==
    /\ ControlsShown
    /\ \E t \in ChartTypes \ {priceChart.chartType} :
          priceChart' \in Rerun([priceChart EXCEPT !.chartType = t])
    /\ UNCHANGED <<indicatorVars, adapterVars, screenVars>>

\* the component is unmounted: the cleanup of the last run
Unmount ==
    /\ priceChart.mounted
    /\ priceChart' = [RunCleanup(priceChart) EXCEPT !.mounted = FALSE]
    /\ UNCHANGED <<indicatorVars, adapterVars, screenVars>>

(* ------------------------- drawing on the chart ------------------------- *)

\* a history of one record, and the long one
DrawingProps ==
    {[loaded |-> TRUE, historical_data |-> h] :
        h \in {<<GoodRecord("2020-01-01", One)>>, LongHistory}}

InitDrawings ==
    /\ \E a \in DrawingProps : priceChart \in MainEffect(NewPriceChart(a))
    /\ IndicatorsIdle
    /\ AdapterIdle
    /\ ScreensIdle

\* the S/R Line button: setDrawingMode(drawingMode === 'horizontal' ? null : 'horizontal');
\* Cancel and ESC: setDrawingMode(null)
SetDrawingMode ==
    /\ ControlsShown
    /\ priceChart' \in Rerun([priceChart EXCEPT
                                  !.drawingMode = IF @ = "horizontal" THEN "null"
                                                  ELSE "horizontal"])
    /\ UNCHANGED <<indicatorVars, adapterVars, screenVars>>

\* handleChartClick(param, mainSeries) in drawing mode, on a price of the chart
ChartClick ==
    /\ ControlsShown
    /\ priceChart.cleanup
    /\ priceChart.drawingMode = "horizontal"
    /\ Len(priceChart.savedDrawings) < MaxDrawings
    /\ \E price \in Closes :
          priceChart' \in Rerun([priceChart EXCEPT
                                    !.savedDrawings = Append(@, HorizontalLine(price)),
                                    !.drawingMode = "null"])
    /\ UNCHANGED <<indicatorVars, adapterVars, screenVars>>

\* clearAllDrawings (its button is disabled without drawings)
ClearAllDrawings ==
    /\ ControlsShown
    /\ Len(priceChart.savedDrawings) > 0
    /\ priceChart' \in Rerun([priceChart EXCEPT !.savedDrawings = <<>>,
                                                !.drawingMode = "null"])
    /\ UNCHANGED <<indicatorVars, adapterVars, screenVars>>

NextDrawings ==
    \/ SetDrawingMode
    \/ ChartClick
    \/ ClearAllDrawings
    \/ ToggleIndicator
    \/ SetChartType

SpecDrawings == InitDrawings /\ [][NextDrawings]_vars

NextChart ==
    \/ SetAssetData
    \/ ToggleIndicator
    \/ SetChartType
    \/ Unmount

SpecChart == InitChart /\ [][NextChart]_vars

(* ===================== TradingScreen: the asset search ================== *)

MaxQuery == 3

MaxInFlight == 2

MaxAssetLoads == 1

\* the characters typed into the search box
Alphabet == {"A", "B"}

RECURSIVE Strings(_)
\* the strings over Alphabet of length n
Strings(n) ==
    IF n = 0 THEN {<<>>}
    ELSE {Append(s, c) : s \in Strings(n - 1), c \in Alphabet}

\* the values the search box can take
Queries == UNION {Strings(n) : n \in 0..MaxQuery}

\* the symbols the search service knows
Symbols == {<<"A", "A">>, <<"A", "A", "B">>, <<"A", "B">>}

\* response.data.quotes || [] of /api/search-assets?q=query, ordered by score
\* and cut to 10: the symbols that begin with the query (the order of the
\* quotes plays no part in what follows, so they are kept as a set)
SearchAssets(query) == {s \in Symbols : StartsWith(s, query)}

\* setSearchQuery(q) with the run of the debounce effect that follows it: no
\* re-render when the value is the same; else the cleanup of the last run
\* clears its timer, then a short query empties and hides the results and a
\* longer one arms a timer that holds the query
setSearchQuery(st, q) ==
    IF q = st.searchQuery THEN st
    ELSE IF Len(q) < 2
    THEN [st EXCEPT !.searchQuery = q, !.searchResults = {},
                    !.showResults = FALSE, !.timer = NoTimer]
    ELSE [st EXCEPT !.searchQuery = q, !.timer = Timer(q)]

InitSearch ==
    /\ tradingScreen = NewTradingScreen
    /\ tradingModal = NewTradingModal("buy", <<>>, FALSE)
    /\ app = NewApp(NoStorage)
    /\ IndicatorsIdle
    /\ AdapterIdle
    /\ ChartIdle

\* onChange={(e) => setSearchQuery(e.target.value)}
Type(q) ==
    /\ q # tradingScreen.searchQuery
    /\ tradingScreen' = setSearchQuery(tradingScreen, q)
    /\ UNCHANGED <<indicatorVars, adapterVars, chartVars, tradingModal, app>>

\* the timer fires after 1000 ms: handleSearch(searchQuery) up to its await
TimerFires ==
    /\ tradingScreen.timer.armed
    /\ Len(tradingScreen.requests) < MaxInFlight
    /\ tradingScreen' =
           IF Len(tradingScreen.timer.query) < 2
           THEN [tradingScreen EXCEPT !.timer = NoTimer]
           ELSE [tradingScreen EXCEPT
                    !.timer = NoTimer, !.searching = TRUE,
                    !.requests = Append(tradingScreen.requests, tradingScreen.timer.query)]
    /\ UNCHANGED <<indicatorVars, adapterVars, chartVars, tradingModal, app>>

\* the requests in flight without the i-th
Without(requests, i) ==
    SubSeq(requests, 1, i - 1) \o SubSeq(requests, i + 1, Len(requests))

\* a search answers: setSearchResults(sortedQuotes); setShowResults(true);
\* finally setSearching(false)
SearchResponse(i) ==
    /\ i \in 1..Len(tradingScreen.requests)
    /\ tradingScreen' =
           [tradingScreen EXCEPT
               !.searchResults = SearchAssets(tradingScreen.requests[i]),
               !.showResults = TRUE, !.searching = FALSE,
               !.requests = Without(tradingScreen.requests, i)]
    /\ UNCHANGED <<indicatorVars, adapterVars, chartVars, tradingModal, app>>

\* a search fails: catch { setSearchResults([]) } finally { setSearching(false) }
SearchError(i) ==
    /\ i \in 1..Len(tradingScreen.requests)
    /\ tradingScreen' =
           [tradingScreen EXCEPT
               !.searchResults = {}, !.searching = FALSE,
               !.requests = Without(tradingScreen.requests, i)]
    /\ UNCHANGED <<indicatorVars, adapterVars, chartVars, tradingModal, app>>

\* onFocus={() => searchResults.length > 0 && setShowResults(true)}
Focus ==
    /\ tradingScreen.searchResults # {}
    /\ ~tradingScreen.showResults
    /\ tradingScreen' = [tradingScreen EXCEPT !.showResults = TRUE]
    /\ UNCHANGED <<indicatorVars, adapterVars, chartVars, tradingModal, app>>

\* a mousedown outside the search box: setShowResults(false)
ClickOutside ==
    /\ tradingScreen.showResults
    /\ tradingScreen' = [tradingScreen EXCEPT !.showResults = FALSE]
    /\ UNCHANGED <<indicatorVars, adapterVars, chartVars, tradingModal, app>>

\* the dropdown is rendered: showResults && searchResults.length > 0
DropdownShown(st) == st.showResults /\ st.searchResults # {}

\* a click on a row of the dropdown: handleAssetSelect(asset) up to its await
handleAssetSelect(symbol) ==
    /\ DropdownShown(tradingScreen)
    /\ symbol \in tradingScreen.searchResults
    /\ Len(tradingScreen.assetRequests) < MaxAssetLoads
    /\ tradingScreen' =
           [setSearchQuery([tradingScreen EXCEPT !.showResults = FALSE], symbol)
               EXCEPT !.loading = TRUE, !.selectedAsset = NoAsset,
                      !.assetRequests = Append(tradingScreen.assetRequests, symbol)]
    /\ UNCHANGED <<indicatorVars, adapterVars, chartVars, tradingModal, app>>

\* the asset request answers: setSelectedAsset(assetData), or null when it
\* fails; finally setLoading(false)
AssetResponse(i, found) ==
    /\ i \in 1..Len(tradingScreen.assetRequests)
    /\ tradingScreen' =
           [tradingScreen EXCEPT
               !.selectedAsset = IF found THEN tradingScreen.assetRequests[i] ELSE NoAsset,
               !.loading = FALSE,
               !.assetRequests = Without(tradingScreen.assetRequests, i)]
    /\ UNCHANGED <<indicatorVars, adapterVars, chartVars, tradingModal, app>>

NextSearch ==
    \/ \E q \in Queries : Type(q)
    \/ TimerFires
    \/ \E i \in 1..MaxInFlight : SearchResponse(i)
    \/ \E i \in 1..MaxInFlight : SearchError(i)
    \/ Focus
    \/ ClickOutside
    \/ \E symbol \in Symbols : handleAssetSelect(symbol)
    \/ \E i \in 1..MaxAssetLoads, found \in BOOLEAN : AssetResponse(i, found)

SpecSearch == InitSearch /\ [][NextSearch]_vars

(* ====================== TradingModal: buying and selling ================ *)

RECURSIVE CountDigits(_, _)
\* the length of the longest run of digits of s from position i
CountDigits(s, i) ==
    IF i <= Len(s) /\ IsDigit(s[i]) THEN 1 + CountDigits(s, i + 1) ELSE 0

\* parseFloat on the text of a number input or of a decimal of the backend:
\* optional sign, digits, then optionally a point and digits; NaN when no
\* digit is found
ParseDecimal(s) ==
    LET signed == Len(s) > 0 /\ s[1] \in {"-", "+"}
        sign == IF Len(s) > 0 /\ s[1] = "-" THEN 0 - 1 ELSE 1
        rest == IF signed THEN SubSeq(s, 2, Len(s)) ELSE s
        none == [seen |-> FALSE, value |-> 0]
        whole == ReadDigits(rest, 1, none)
        dot == CountDigits(rest, 1) + 1
        point == dot <= Len(rest) /\ rest[dot] = "."
        fraction == IF point THEN ReadDigits(rest, dot + 1, none) ELSE none
        places == IF point THEN CountDigits(rest, dot + 1) ELSE 0
    IN  IF ~whole.seen /\ ~fraction.seen THEN NaN
        ELSE Norm(sign * (whole.value * 10^places + fraction.value), 10^places)

\* Math.round(x): the integer nearest to x, a half going up
MathRound(x) ==
    IF IsFinite(x) THEN Num((2 * x.n + x.d) \div (2 * x.d)) ELSE x

\* Math.round(parsedAmount * 100) / 100
RoundToCents(parsedAmount) == Div(MathRound(Mul(parsedAmount, Num(100))), Num(100))

\* !value of a price or an amount: null, NaN and 0 are falsy
Not(value) == value = Null \/ IsNaN(value) \/ IsZero(value)

\* the action prop
ModalActions == {"buy", "sell"}

\* simulation.balance, a decimal of two places
Balances == {<<"1", ".", "0", "0">>, <<"2", ".", "5", "0">>}

\* the texts a number input can hold
Amounts ==
    {<<>>, <<"0">>, <<"-", "1">>, <<"0", ".", "0", "0", "4">>,
     <<"0", ".", "0", "0", "5">>, <<"1">>, <<"2", ".", "4", "9", "9">>,
     <<"2", ".", "5", "0", "4">>, <<"3">>}

\* asset.apiData.current_price
OriginalPrice == <<"1", "0">>

\* response.data.rate of /api/exchange/rate
Rates == {<<"0">>, <<"0", ".", "5">>}

\* the conversion effect, run when show changes: nothing to convert clears the
\* converted price, else fetchConversion starts
ConversionEffect(st) ==
    IF ~st.show \/ ~st.needsConversion
    THEN [st EXCEPT !.convertedPrice = Null]
    ELSE [st EXCEPT !.loadingConversion = TRUE]

InitModal ==
    /\ \E action \in ModalActions, balance \in Balances, needsConversion \in BOOLEAN :
           tradingModal =
               ConversionEffect([NewTradingModal(action, balance, needsConversion)
                                    EXCEPT !.show = TRUE])
    /\ tradingScreen = NewTradingScreen
    /\ app = NewApp(NoStorage)
    /\ IndicatorsIdle
    /\ AdapterIdle
    /\ ChartIdle

\* the exchange rate arrives: setConvertedPrice(parseFloat(originalPrice) * parseFloat(rate))
ConversionResponse(rate) ==
    /\ tradingModal.loadingConversion
    /\ tradingModal' =
           [tradingModal EXCEPT
               !.convertedPrice = Mul(ParseDecimal(OriginalPrice), ParseDecimal(rate)),
               !.loadingConversion = FALSE]
    /\ UNCHANGED <<indicatorVars, adapterVars, chartVars, tradingScreen, app>>

\* the exchange rate request fails: setError(...), the price stays as it was
ConversionError ==
    /\ tradingModal.loadingConversion
    /\ tradingModal' =
           [tradingModal EXCEPT !.error = "Failed to convert", !.loadingConversion = FALSE]
    /\ UNCHANGED <<indicatorVars, adapterVars, chartVars, tradingScreen, app>>

\* onChange={(e) => setAmount(e.target.value)}, the input being enabled
SetAmount(amount) ==
    /\ tradingModal.show
    /\ ~tradingModal.loading /\ ~tradingModal.loadingConversion
    /\ amount # tradingModal.amount
    /\ tradingModal' = [tradingModal EXCEPT !.amount = amount]
    /\ UNCHANGED <<indicatorVars, adapterVars, chartVars, tradingScreen, app>>

\* the submit button is enabled
SubmitEnabled(st) ==
    ~(\/ st.loading
      \/ st.loadingConversion
      \/ st.amount = <<>>
      \/ Leq(ParseDecimal(st.amount), Num(0))
      \/ st.needsConversion /\ Not(st.convertedPrice))

\* handleSubmit up to its await: the three checks, the rounding, the post
handleSubmit(st) ==
    LET parsedAmount == ParseDecimal(st.amount)
    IN  IF Not(parsedAmount) \/ Leq(parsedAmount, Num(0))
        THEN [st EXCEPT !.error = "Please enter a valid amount"]
        ELSE IF st.action = "buy" /\ Gt(parsedAmount, ParseDecimal(st.balance))
        THEN [st EXCEPT !.error = "Insufficient balance"]
        ELSE IF st.needsConversion /\ Not(st.convertedPrice)
        THEN [st EXCEPT !.error = "Waiting for currency conversion..."]
        ELSE [st EXCEPT
                 !.error = NoError, !.loading = TRUE, !.toast = "loading",
                 !.request = [endpoint |-> IF st.action = "buy" THEN "purchase" ELSE "sell",
                              desired_amount |-> RoundToCents(parsedAmount)]]

\* <Form onSubmit={handleSubmit}>, through the enabled submit button
HandleSubmit ==
    /\ tradingModal.show
    /\ SubmitEnabled(tradingModal)
    /\ tradingModal' = handleSubmit(tradingModal)
    /\ UNCHANGED <<indicatorVars, adapterVars, chartVars, tradingScreen, app>>

\* the post answers: the success toast, setAmount(''); setError(null);
\* onHide(); finally setLoading(false)
TradeResponse ==
    /\ tradingModal.request # NoRequest
    /\ tradingModal' =
           ConversionEffect([tradingModal EXCEPT
               !.amount = <<>>, !.error = NoError, !.show = FALSE,
               !.toast = "success", !.loading = FALSE, !.request = NoRequest])
    /\ UNCHANGED <<indicatorVars, adapterVars, chartVars, tradingScreen, app>>

\* the post fails: the error toast, setError(errorMsg); finally setLoading(false)
TradeError ==
    /\ tradingModal.request # NoRequest
    /\ tradingModal' =
           [tradingModal EXCEPT
               !.error = "Operation failed", !.toast = "error", !.loading = FALSE,
               !.request = NoRequest]
    /\ UNCHANGED <<indicatorVars, adapterVars, chartVars, tradingScreen, app>>

\* Cancel, or the close button: handleModalHide
HandleModalHide ==
    /\ tradingModal.show
    /\ ~tradingModal.loading
    /\ tradingModal' =
           ConversionEffect([tradingModal EXCEPT
               !.amount = <<>>, !.error = NoError, !.convertedPrice = Null,
               !.show = FALSE])
    /\ UNCHANGED <<indicatorVars, adapterVars, chartVars, tradingScreen, app>>

\* the parent shows the modal again
ShowModal ==
    /\ ~tradingModal.show
    /\ ~tradingModal.loadingConversion
    /\ tradingModal' = ConversionEffect([tradingModal EXCEPT !.show = TRUE])
    /\ UNCHANGED <<indicatorVars, adapterVars, chartVars, tradingScreen, app>>

NextModal ==
    \/ \E rate \in Rates : ConversionResponse(rate)
    \/ ConversionError
    \/ \E amount \in Amounts : SetAmount(amount)
    \/ HandleSubmit
    \/ TradeResponse
    \/ TradeError
    \/ HandleModalHide
    \/ ShowModal

SpecModal == InitModal /\ [][NextModal]_vars

(* ================== App: screens and the saved simulation =============== *)

MaxReloads == 2

\* simulation.id of the simulations of the backend
SimulationIds == {JsNumber(<<"1">>), JsNumber(<<"2">>)}

\* a simulation as the backend returns it
Simulation(id) == [id |-> id]

\* localStorage after setItem('currentSimulationId', id) and
\* setItem('lastScreen', 'view'): setItem stores the string of the value
Stored(id) == [currentSimulationId |-> JsString(ToStr(id)), lastScreen |-> "view"]

\* the ticker SimulationView passes to onGoToTrading: null, or a holding's
Tickers == {NoAsset, <<"A", "A">>}

\* what a session of the App can leave in localStorage
Storages == {NoStorage} \cup {Stored(id) : id \in SimulationIds}

\* the mount effect: with both keys saved, setLoading(true) and the
\* simulation is requested
RestoreEffect(st) ==
    IF st.storage.currentSimulationId # NoItem /\ st.storage.lastScreen = "view"
    THEN [st EXCEPT !.loading = TRUE, !.restore = TRUE]
    ELSE st

InitApp ==
    /\ \E storage \in Storages : app = RestoreEffect(NewApp(storage))
    /\ tradingScreen = NewTradingScreen
    /\ tradingModal = NewTradingModal("buy", <<>>, FALSE)
    /\ IndicatorsIdle
    /\ AdapterIdle
    /\ ChartIdle

\* simulationsAPI.get(savedSimId) answers: the simulation of that id is set
\* and shown; finally setLoading(false)
RestoreResponse ==
    /\ app.restore
    /\ app' = [app EXCEPT
                  !.currentSimulation =
                      Simulation(JsNumber(app.storage.currentSimulationId.text)),
                  !.currentScreen = "view", !.loading = FALSE, !.restore = FALSE]
    /\ UNCHANGED <<indicatorVars, adapterVars, chartVars, tradingScreen, tradingModal>>

\* simulationsAPI.get(savedSimId) fails: both keys are removed; finally
\* setLoading(false)
RestoreError ==
    /\ app.restore
    /\ app' = [app EXCEPT !.storage = NoStorage, !.loading = FALSE, !.restore = FALSE]
    /\ UNCHANGED <<indicatorVars, adapterVars, chartVars, tradingScreen, tradingModal>>

\* the screen that is rendered: the spinner while loading, a screen that
\* needs a simulation only when there is one
Rendered(st) ==
    IF st.loading THEN "spinner"
    ELSE IF st.currentScreen = "list" THEN "list"
    ELSE IF st.currentSimulation # NoSimulation THEN st.currentScreen
    ELSE "nothing"

\* SimulationList calls onOpenSimulation(simulation)
openSimulation(id) ==
    /\ Rendered(app) = "list"
    /\ app' = [app EXCEPT
                  !.currentSimulation = Simulation(id), !.currentScreen = "view",
                  !.storage = Stored(id)]
    /\ UNCHANGED <<indicatorVars, adapterVars, chartVars, tradingScreen, tradingModal>>

\* SimulationView calls onBack
goToList ==
    /\ Rendered(app) = "view"
    /\ app' = [app EXCEPT
                  !.currentSimulation = NoSimulation, !.currentScreen = "list",
                  !.storage = NoStorage]
    /\ UNCHANGED <<indicatorVars, adapterVars, chartVars, tradingScreen, tradingModal>>

\* SimulationView calls onGoToTrading: goToTrading up to its await, the
\* simulation being there its reload is requested
goToTrading(ticker) ==
    /\ Rendered(app) = "view"
    /\ Len(app.reloads) < MaxReloads
    /\ app' = [app EXCEPT
                  !.reloads = Append(app.reloads,
                                     [id |-> app.currentSimulation.id, ticker |-> ticker])]
    /\ UNCHANGED <<indicatorVars, adapterVars, chartVars, tradingScreen, tradingModal>>

\* the reload answers: setCurrentSimulation(response.data), then
\* setSelectedTicker(ticker); setCurrentScreen('trading')
ReloadResponse(i) ==
    /\ i \in 1..Len(app.reloads)
    /\ app' = [app EXCEPT
                  !.currentSimulation = Simulation(app.reloads[i].id),
                  !.selectedTicker = app.reloads[i].ticker,
                  !.currentScreen = "trading",
                  !.reloads = Without(app.reloads, i)]
    /\ UNCHANGED <<indicatorVars, adapterVars, chartVars, tradingScreen, tradingModal>>

\* the reload fails: the error is logged, then setSelectedTicker(ticker);
\* setCurrentScreen('trading')
ReloadError(i) ==
    /\ i \in 1..Len(app.reloads)
    /\ app' = [app EXCEPT
                  !.selectedTicker = app.reloads[i].ticker,
                  !.currentScreen = "trading", !.reloads = Without(app.reloads, i)]
    /\ UNCHANGED <<indicatorVars, adapterVars, chartVars, tradingScreen, tradingModal>>

\* TradingScreen calls onBack: setCurrentScreen('view')
BackToView ==
    /\ Rendered(app) = "trading"
    /\ app' = [app EXCEPT !.currentScreen = "view"]
    /\ UNCHANGED <<indicatorVars, adapterVars, chartVars, tradingScreen, tradingModal>>

NextApp ==
    \/ RestoreResponse
    \/ RestoreError
    \/ \E id \in SimulationIds : openSimulation(id)
    \/ goToList
    \/ \E ticker \in Tickers : goToTrading(ticker)
    \/ \E i \in 1..MaxReloads : ReloadResponse(i)
    \/ \E i \in 1..MaxReloads : ReloadError(i)
    \/ BackToView

SpecApp == InitApp /\ [][NextApp]_vars

(* ============================ properties ================================ *)

RECURSIVE CloseSum(_, _, _)
\* close[lo] + ... + close[hi], as an integer
CloseSum(d, lo, hi) == IF lo > hi THEN 0 ELSE At(d, lo).close + CloseSum(d, lo + 1, hi)

\* the arithmetic mean of close[lo .. lo+p-1]
Mean(d, lo, p) == Norm(CloseSum(d, lo, lo + p - 1), p)

\* C1: calculateSMA(series, p) returns n-p+1 points when n >= p and none when
\* n < p; its k-th point is keyed to time[k+p-1] and its value is the
\* arithmetic mean of close[k .. k+p-1].
C1_SMAWindowMeans ==
    call.fn = "calculateSMA" =>
        LET n == Len(data)
            p == call.period
        IN  /\ ret.status = "ok"
            /\ Len(ret.value) = (IF n >= p THEN n - p + 1 ELSE 0)
            /\ \A k \in 0..(Len(ret.value) - 1) :
                  At(ret.value, k) = Point(At(data, k + p - 1).time, Mean(data, k, p))

\* an SMA over a window of at least two unequal closes, with two points or more
C1_Witness ==
    /\ call.fn = "calculateSMA"
    /\ call.period >= 2
    /\ ret.status = "ok"
    /\ Len(ret.value) >= 2
    /\ At(data, 0).close # At(data, 1).close
    /\ At(ret.value, 0).value # At(ret.value, 1).value

\* C2: calculateEMA(series, p) with n >= p returns n-p+1 points; the first is
\* keyed to time[p-1] and is the mean of the first p closes, the first point of
\* calculateSMA(series, p); the point of every source index i >= p is keyed to
\* time[i] and equals (close[i] - ema[i-1]) * 2/(p+1) + ema[i-1].
C2_EMASeedAndRecurrence ==
    (call.fn = "calculateEMA" /\ Len(data) >= call.period) =>
        LET n == Len(data)
            p == call.period
            sma == calculateSMA(data, p)
        IN  /\ ret.status = "ok"
            /\ Len(ret.value) = n - p + 1
            /\ At(ret.value, 0) = Point(At(data, p - 1).time, Mean(data, 0, p))
            /\ sma.status = "ok" /\ At(ret.value, 0) = At(sma.value, 0)
            /\ \A i \in p..(n - 1) :
                  LET prev == At(ret.value, i - p).value
                      x == Num(At(data, i).close)
                  IN  At(ret.value, i - p + 1) =
                          Point(At(data, i).time,
                                Add(Mul(Sub(x, prev), Norm(2, p + 1)), prev))

\* an EMA whose recurrence ran twice and moved the average
C2_Witness ==
    /\ call.fn = "calculateEMA"
    /\ ret.status = "ok"
    /\ Len(ret.value) >= 3
    /\ At(ret.value, 1).value # At(ret.value, 0).value
    /\ At(ret.value, 2).value # At(ret.value, 1).value

\* C3: every value calculateRSI returns for positive closes, n >= period+1 and
\* period >= 1 is a number v with 0 <= v <= 100 (never NaN).
C3_RSIWithinRange ==
    (call.fn = "calculateRSI" /\ Len(data) >= call.period + 1) =>
        /\ ret.status = "ok"
        /\ \A k \in 0..(Len(ret.value) - 1) :
              LET v == At(ret.value, k).value
              IN  IsFinite(v) /\ Leq(Num(0), v) /\ Leq(v, Num(100))

\* every close-to-close change of steps 1..p is >= 0
SeedWindowNonNegative(d, p) ==
    \A i \in 1..p : At(d, i).close >= At(d, i - 1).close

\* C4: in calculateRSI, when every change of the seed window is non-negative
\* (zero included), avgLoss is 0 and the first RSI value is exactly 100; and
\* every step at which the smoothed avgLoss is 0 yields exactly 100.
C4_NoLossIsExactly100 ==
    (call.fn = "calculateRSI" /\ ret.status = "ok") =>
        LET t == RSITrace(data, call.period).value
        IN  /\ SeedWindowNonNegative(data, call.period) =>
                  /\ At(t, 0).avgLoss = Num(0)
                  /\ At(ret.value, 0).value = Num(100)
            /\ \A k \in 0..(Len(ret.value) - 1) :
                  At(t, k).avgLoss = Num(0) => At(ret.value, k).value = Num(100)

\* the warm-up window the specification names for each indicator
WarmUp(c) ==
    IF c.fn = "calculateMACD" THEN c.slowPeriod + c.signalPeriod ELSE c.period

\* C9: on a series shorter than the indicator's warm-up window every indicator
\* function reports an explicit insufficient-data error (no out-of-bounds
\* access, no NaN values returned).
C9_ShortSeriesReported ==
    (call.fn # "none" /\ Len(data) < WarmUp(call)) =>
        /\ ret.status = "throw"
        /\ ret.error = "InsufficientDataError"

\* C10: calculateRSI(series, period) returns exactly n - period points for
\* every n >= period (none when n = period), the k-th keyed to time[period+k].
C10_RSILength ==
    (call.fn = "calculateRSI" /\ Len(data) >= call.period) =>
        /\ ret.status = "ok"
        /\ Len(ret.value) = Len(data) - call.period
        /\ \A k \in 0..(Len(ret.value) - 1) :
              At(ret.value, k).time = At(data, call.period + k).time

\* the time keys of a series of points
Times(a) == {a[i].time : i \in 1..Len(a)}

\* the point of a keyed to time t (a has one)
PointAt(a, t) == CHOOSE pt \in {a[i] : i \in 1..Len(a)} : pt.time = t

\* C5: the macd line of calculateMACD is the inner join on time of the two
\* EMAs: one point for each time key present in both fastEMA and slowEMA, in
\* slowEMA order, with value fastEMA(t) - slowEMA(t), and no point for a time
\* missing from either (so n - slowPeriod + 1 points for fast <= slow).
C5_MACDLineIsInnerJoin ==
    (/\ call.fn = "calculateMACD"
     /\ call.fastPeriod <= Len(data)
     /\ call.slowPeriod <= Len(data)) =>
        LET fastEMA == calculateEMA(data, call.fastPeriod).value
            slowEMA == calculateEMA(data, call.slowPeriod).value
            macdLine == MACDLine(fastEMA, slowEMA, 0, <<>>)
            InFast(pt) == pt.time \in Times(fastEMA)
            joined == SelectSeq(slowEMA, InFast)
            both == Times(fastEMA) \cap Times(slowEMA)
        IN  /\ Len(macdLine) = Len(joined)
            /\ \A i \in 1..Len(macdLine) :
                  /\ macdLine[i].time = joined[i].time
                  /\ macdLine[i].value =
                        Sub(PointAt(fastEMA, joined[i].time).value, joined[i].value)
            /\ \A t \in both : Cardinality({i \in 1..Len(macdLine) : macdLine[i].time = t}) = 1
            /\ Times(macdLine) \subseteq both
            /\ call.fastPeriod <= call.slowPeriod =>
                  Len(macdLine) = Len(data) - call.slowPeriod + 1
            /\ ret.status = "ok" => ret.value.macd = macdLine

\* a MACD result whose EMAs start at different offsets and differ in value
C5_Witness ==
    /\ call.fn = "calculateMACD"
    /\ call.fastPeriod < call.slowPeriod
    /\ ret.status = "ok"
    /\ Len(ret.value.macd) >= 2
    /\ \E i \in 1..Len(ret.value.macd) : ~IsZero(ret.value.macd[i].value)
    /\ At(ret.value.macd, 0).time = At(data, call.slowPeriod - 1).time

\* C6: in every result of calculateMACD, every time t with both a macd point
\* and a signal point has a histogram point whose value is macd(t) - signal(t)
\* and whose colour is the non-negative colour iff the value is >= 0 (the
\* negative colour otherwise); the histogram has no point at any other time.
C6_HistogramIsMacdMinusSignal ==
    (call.fn = "calculateMACD" /\ ret.status = "ok") =>
        LET macd == ret.value.macd
            signal == ret.value.signal
            histogram == ret.value.histogram
            both == Times(macd) \cap Times(signal)
        IN  /\ Green # Red
            /\ Times(histogram) = both
            /\ \A t \in both :
                  Cardinality({i \in 1..Len(histogram) : histogram[i].time = t}) = 1
            /\ \A i \in 1..Len(histogram) :
                  LET t == histogram[i].time
                      v == Sub(PointAt(macd, t).value, PointAt(signal, t).value)
                  IN  /\ histogram[i].value = v
                      /\ histogram[i].color = (IF Geq(v, Num(0)) THEN Green ELSE Red)

\* a histogram with a positive bar and a negative bar
C6_Witness ==
    /\ call.fn = "calculateMACD"
    /\ ret.status = "ok"
    /\ \E i, j \in 1..Len(ret.value.histogram) :
          /\ ret.value.histogram[i].color = Green
          /\ Gt(ret.value.histogram[i].value, Num(0))
          /\ ret.value.histogram[j].color = Red
          /\ Lt(ret.value.histogram[j].value, Num(0))

BandsOrdered(b) ==
    \A i \in 1..Len(b.middle) :
        /\ b.upper[i].time = b.middle[i].time
        /\ b.lower[i].time = b.middle[i].time
        /\ Geq(b.upper[i].value, b.middle[i].value)
        /\ Geq(b.middle[i].value, b.lower[i].value)

\* C7 as stated: for every point of every result of calculateBollingerBands,
\* whatever multiplier is passed as stdDev, upper >= middle >= lower.
C7_BandsOrderedAnyMultiplier ==
    (call.fn = "calculateBollingerBands" /\ ret.status = "ok") =>
        /\ Len(ret.value.upper) = Len(ret.value.middle)
        /\ Len(ret.value.lower) = Len(ret.value.middle)
        /\ BandsOrdered(ret.value)

\* C7 amended: for every point of every result of calculateBollingerBands
\* with a multiplier stdDev >= 0, upper >= middle >= lower.
C7_BandsOrderedNonNegativeMultiplier ==
    (call.fn = "calculateBollingerBands" /\ ret.status = "ok" /\ call.stdDev >= 0) =>
        /\ Len(ret.value.upper) = Len(ret.value.middle)
        /\ Len(ret.value.lower) = Len(ret.value.middle)
        /\ BandsOrdered(ret.value)

\* bands that open: a positive multiplier on a window of unequal closes
C7_Witness ==
    /\ call.fn = "calculateBollingerBands"
    /\ ret.status = "ok"
    /\ call.stdDev >= 1
    /\ \E i \in 1..Len(ret.value.middle) :
          /\ Gt(ret.value.upper[i].value, ret.value.middle[i].value)
          /\ Gt(ret.value.middle[i].value, ret.value.lower[i].value)

RECURSIVE SquaredDeviations(_, _, _, _)
\* sum of (close[j] - mean)^2 for j in lo..hi
SquaredDeviations(d, lo, hi, mean) ==
    IF lo > hi THEN Num(0)
    ELSE LET diff == Sub(Num(At(d, lo).close), mean)
         IN  Add(Mul(diff, diff), SquaredDeviations(d, lo + 1, hi, mean))

\* C8: calculateBollingerBands returns upper, middle and lower of equal length
\* n-period+1 with identical time keys; middle is calculateSMA(series, period)
\* and upper/lower[i] = middle[i] +/- k * sqrt(sum((close[j] - middle[i])^2) /
\* period) over the closes i .. i+period-1 the SMA averaged; constant closes
\* collapse the three bands to the close.
C8_BandsAroundSMAWindow ==
    call.fn = "calculateBollingerBands" =>
        LET n == Len(data)
            p == call.period
            k == Num(call.stdDev)
            sma == calculateSMA(data, p)
        IN  /\ ret.status = "ok"
            /\ sma.status = "ok"
            /\ ret.value.middle = sma.value
            /\ Len(ret.value.middle) = (IF n >= p THEN n - p + 1 ELSE 0)
            /\ Len(ret.value.upper) = Len(ret.value.middle)
            /\ Len(ret.value.lower) = Len(ret.value.middle)
            /\ \A i \in 0..(Len(ret.value.middle) - 1) :
                  LET m == At(ret.value.middle, i)
                      sd == Sqrt(Div(SquaredDeviations(data, i, i + p - 1, m.value), Num(p)))
                  IN  /\ m.time = At(data, i + p - 1).time
                      /\ At(ret.value.upper, i) = Point(m.time, Add(m.value, Mul(k, sd)))
                      /\ At(ret.value.lower, i) = Point(m.time, Sub(m.value, Mul(k, sd)))
                      /\ (\A j \in 1..n : data[j].close = data[1].close) =>
                            /\ At(ret.value.upper, i).value = Num(data[1].close)
                            /\ m.value = Num(data[1].close)
                            /\ At(ret.value.lower, i).value = Num(data[1].close)

\* two band points or more over windows of unequal closes, in a series that
\* skips a period, with a multiplier that moves the bands
C8_Witness ==
    /\ call.fn = "calculateBollingerBands"
    /\ ret.status = "ok"
    /\ call.period >= 2
    /\ call.stdDev # 0
    /\ Len(ret.value.middle) >= 2
    /\ \E i \in 1..Len(data) : data[i].time # i
    /\ \A i \in 1..Len(ret.value.middle) :
          ret.value.upper[i].value # ret.value.middle[i].value

(* ------------------------- adapter properties --------------------------- *)

PriceFields(r) == <<r.open, r.high, r.low, r.close>>

\* a record the adapter is to keep: its date is a string or a Date and its
\* open, high, low and close parse to numbers
Usable(r) ==
    /\ ~r.isNull
    /\ r.date.type \in {"string", "Date"}
    /\ \A f \in 1..4 : ~IsNaN(ParseFloat(ToStr(PriceFields(r)[f])))

\* how often x occurs in the sequence s
Count(s, x) == Cardinality({i \in 1..Len(s) : s[i] = x})

\* C11: the adapter never throws; its output holds exactly the records whose
\* date is a string or a Date and whose open, high, low and close parse to
\* numbers; every other record (a null record included) is left out and the
\* rest is kept.
C11_AdapterDropsBadRecords ==
    formatted.status # "none" =>
        /\ formatted.status = "ok"
        /\ Len(formatted.value) = Cardinality({i \in 1..Len(raw) : Usable(raw[i])})
        /\ \A i \in 1..Len(raw) :
              Usable(raw[i]) =>
                  LET pt == PricePoint(MapItem(raw[i]).value)
                  IN  Count(formatted.value, pt) =
                          Cardinality({j \in 1..Len(raw) :
                                          /\ Usable(raw[j])
                                          /\ PricePoint(MapItem(raw[j]).value) = pt})

\* C12: the series the adapter outputs is in strictly ascending time order:
\* series[i].time < series[i+1].time for all i.
C12_StrictlyAscendingTimes ==
    formatted.status = "ok" =>
        \A i \in 1..(Len(formatted.value) - 1) :
            Lt(DateValue(formatted.value[i].time), DateValue(formatted.value[i + 1].time))

\* the raw volume is absent or cannot be parsed as a number
VolumeUnusable(r) ==
    r.volume.type = "undefined" \/ IsNaN(ParseFloat(ToStr(r.volume)))

\* C13: in every record the adapter outputs, volume is 0 whenever the raw
\* volume is absent or cannot be parsed as a number (never NaN).
C13_VolumeDefaultsToZero ==
    formatted.status = "ok" =>
        /\ \A j \in 1..Len(formatted.value) : ~IsNaN(formatted.value[j].volume)
        /\ \A i \in 1..Len(raw) :
              (Usable(raw[i]) /\ VolumeUnusable(raw[i])) =>
                  PricePoint(MapItem(raw[i]).value).volume = Num(0)

\* C20: every record of the series the adapter hands on has finite open,
\* high, low and close, all > 0, and a finite volume >= 0.
C20_PositiveFinitePrices ==
    formatted.status = "ok" =>
        \A j \in 1..Len(formatted.value) :
            LET r == formatted.value[j]
            IN  /\ \A v \in {r.open, r.high, r.low, r.close} : IsFinite(v) /\ Gt(v, Num(0))
                /\ IsFinite(r.volume) /\ Geq(r.volume, Num(0))

(* ---------------------- keys of the output series ----------------------- *)

\* every point of s is keyed to a time of the source d, and the points follow
\* the order of the source without repeating a time
KeyedInSourceOrder(d, s) ==
    /\ Len(s) <= Len(d)
    /\ \A i \in 1..Len(s) :
          /\ FindIndex(d, s[i].time) >= 0
          /\ i > 1 => FindIndex(d, s[i - 1].time) < FindIndex(d, s[i].time)

\* s is keyed to the source with its first p - 1 times left out
LeadingDropped(d, s, p) ==
    /\ Len(s) = Len(d) - (p - 1)
    /\ \A k \in 0..(Len(s) - 1) : At(s, k).time = At(d, k + p - 1).time

\* C15: every point of every series an indicator function returns (macd,
\* signal, histogram, upper, middle, lower included) is keyed to a time of the
\* source series; the output times are in source order without repetition, so
\* no output series is longer than the source; SMA, EMA and the Bollinger
\* bands drop the period - 1 leading points.
C15_OutputKeyedToSource ==
    /\ (call.fn \in {"calculateSMA", "calculateEMA", "calculateRSI"} /\ ret.status = "ok") =>
          KeyedInSourceOrder(data, ret.value)
    /\ (call.fn = "calculateMACD" /\ ret.status = "ok") =>
          /\ KeyedInSourceOrder(data, ret.value.macd)
          /\ KeyedInSourceOrder(data, ret.value.signal)
          /\ KeyedInSourceOrder(data, ret.value.histogram)
    /\ (call.fn = "calculateBollingerBands" /\ ret.status = "ok") =>
          /\ KeyedInSourceOrder(data, ret.value.upper)
          /\ KeyedInSourceOrder(data, ret.value.middle)
          /\ KeyedInSourceOrder(data, ret.value.lower)
    /\ (call.fn \in {"calculateSMA", "calculateEMA"} /\ Len(data) >= call.period) =>
          /\ ret.status = "ok"
          /\ LeadingDropped(data, ret.value, call.period)
    /\ (call.fn = "calculateBollingerBands" /\ Len(data) >= call.period) =>
          /\ ret.status = "ok"
          /\ LeadingDropped(data, ret.value.upper, call.period)
          /\ LeadingDropped(data, ret.value.middle, call.period)
          /\ LeadingDropped(data, ret.value.lower, call.period)

\* a MACD whose three series differ in length, each shorter than the source,
\* the signal line with more than one point
C15_Witness ==
    /\ call.fn = "calculateMACD"
    /\ ret.status = "ok"
    /\ Len(ret.value.histogram) >= 2
    /\ Len(ret.value.signal) < Len(ret.value.macd)
    /\ Len(ret.value.macd) < Len(data)

(* --------------------------- the signal line ---------------------------- *)

RECURSIVE ValueSum(_, _, _)
\* value[lo] + ... + value[hi] of a series of points
ValueSum(a, lo, hi) ==
    IF lo > hi THEN Num(0) ELSE Add(At(a, lo).value, ValueSum(a, lo + 1, hi))

Max(a, b) == IF a > b THEN a ELSE b

\* C16: in calculateMACD the signal line starts with the simple average of the
\* first signalPeriod macd values, keyed to macdLine[signalPeriod-1].time, and
\* goes on with signal[i] = (macd[i] - signal[i-1]) * 2/(signalPeriod+1) +
\* signal[i-1]; the signal line and the histogram have exactly
\* macdLine.length - (signalPeriod - 1) points each.
C16_SignalSeedAndRecurrence ==
    (/\ call.fn = "calculateMACD"
     /\ Len(data) - Max(call.fastPeriod, call.slowPeriod) + 1 >= call.signalPeriod) =>
        /\ ret.status = "ok"
        /\ LET m == ret.value.macd
               sig == ret.value.signal
               sp == call.signalPeriod
           IN  /\ Len(m) >= sp
               /\ At(sig, 0) = Point(At(m, sp - 1).time,
                                     Div(ValueSum(m, 0, sp - 1), Num(sp)))
               /\ \A i \in sp..(Len(m) - 1) :
                     LET prev == At(sig, i - sp).value
                     IN  At(sig, i - sp + 1) =
                             Point(At(m, i).time,
                                   Add(Mul(Sub(At(m, i).value, prev), Norm(2, sp + 1)), prev))
               /\ Len(sig) = Len(m) - (sp - 1)
               /\ Len(ret.value.histogram) = Len(m) - (sp - 1)

\* a signal line seeded from two macd values, the first not 0, then moved by
\* the recurrence
C16_Witness ==
    /\ call.fn = "calculateMACD"
    /\ call.signalPeriod >= 2
    /\ ret.status = "ok"
    /\ ~IsZero(At(ret.value.macd, 0).value)
    /\ Len(ret.value.signal) >= 2
    /\ At(ret.value.signal, 1).value # At(ret.value.signal, 0).value

(* --------------------------- Wilder smoothing --------------------------- *)

\* change = close[i] - close[i-1]
Change(d, i) == At(d, i).close - At(d, i - 1).close

\* gain = max(change, 0)
Gain(d, i) == IF Change(d, i) > 0 THEN Change(d, i) ELSE 0

\* loss = max(-change, 0)
Loss(d, i) == IF Change(d, i) < 0 THEN 0 - Change(d, i) ELSE 0

RECURSIVE GainSum(_, _, _)
GainSum(d, lo, hi) == IF lo > hi THEN 0 ELSE Gain(d, lo) + GainSum(d, lo + 1, hi)

RECURSIVE LossSum(_, _, _)
LossSum(d, lo, hi) == IF lo > hi THEN 0 ELSE Loss(d, lo) + LossSum(d, lo + 1, hi)

RECURSIVE WilderGain(_, _, _)
\* avgGain at source index i >= p
WilderGain(d, p, i) ==
    IF i <= p THEN Norm(GainSum(d, 1, p), p)
    ELSE Div(Add(Mul(WilderGain(d, p, i - 1), Num(p - 1)), Num(Gain(d, i))), Num(p))

RECURSIVE WilderLoss(_, _, _)
\* avgLoss at source index i >= p
WilderLoss(d, p, i) ==
    IF i <= p THEN Norm(LossSum(d, 1, p), p)
    ELSE Div(Add(Mul(WilderLoss(d, p, i - 1), Num(p - 1)), Num(Loss(d, i))), Num(p))

\* C17: the seed avgGain and avgLoss of calculateRSI are the sums of the gains
\* and of the absolute losses of steps 1..period divided by period; at every
\* source index i > period, avgGain = (avgGain*(period-1) + gain)/period and
\* avgLoss = (avgLoss*(period-1) + loss)/period with gain = max(change, 0),
\* loss = max(-change, 0), change = close[i] - close[i-1]; each value is
\* 100 - 100/(1 + avgGain/avgLoss).
C17_WilderSmoothing ==
    (call.fn = "calculateRSI" /\ Len(data) >= call.period + 1) =>
        /\ ret.status = "ok"
        /\ Len(ret.value) = Len(data) - call.period
        /\ \A i \in call.period..(Len(data) - 1) :
              LET g == WilderGain(data, call.period, i)
                  l == WilderLoss(data, call.period, i)
              IN  At(ret.value, i - call.period) =
                      Point(At(data, i).time,
                            Sub(Num(100), Div(Num(100), Add(Num(1), Div(g, l)))))

\* an RSI smoothed past its seed, with gains and losses, to another value
C17_Witness ==
    /\ call.fn = "calculateRSI"
    /\ call.period >= 2
    /\ ret.status = "ok"
    /\ Len(ret.value) >= 2
    /\ IsFinite(At(ret.value, 0).value)
    /\ IsFinite(At(ret.value, 1).value)
    /\ At(ret.value, 1).value # At(ret.value, 0).value

(* --------------------------- invalid periods ---------------------------- *)

\* the periods of the call in progress (period for SMA, EMA, RSI and the
\* bands; fastPeriod, slowPeriod and signalPeriod for MACD)
PeriodsOf(c) ==
    IF c.fn = "calculateMACD" THEN {c.fastPeriod, c.slowPeriod, c.signalPeriod}
    ELSE {c.period}

\* C18: a call of an indicator function with a non-positive period is rejected
\* with an invalid-parameter error; it produces no output series (no series of
\* NaN values).
C18_InvalidPeriodRejected ==
    (call.fn # "none" /\ \E p \in PeriodsOf(call) : p <= 0) =>
        /\ ret.status = "throw"
        /\ ret.error = "InvalidParameterError"

(* ------------------------ chart without valid data ---------------------- *)

\* the last formatChartData of the effect gave an empty series
AdapterGaveNothing ==
    /\ priceChart.formattedData.status = "ok"
    /\ Len(priceChart.formattedData.value) = 0

\* C19: when the adapter yields zero usable points, PriceChart ends in the
\* error state with the message 'No valid chart data available': no main
\* series, volume series or indicator line is added, no indicator function is
\* called, and no exception escapes the effect.
C19_NoValidDataErrorState ==
    AdapterGaveNothing =>
        /\ priceChart.error = NoValidData
        /\ priceChart.chartRef.main = "none"
        /\ ~priceChart.chartRef.volume
        /\ priceChart.chartRef.lines = {}
        /\ priceChart.calls = {}
        /\ ~priceChart.escaped

\* a chart shown with volume and a moving average switched on is given a
\* history without a usable record
C19_Witness ==
    /\ AdapterGaveNothing
    /\ priceChart.mounted
    /\ Len(priceChart.assetData.historical_data) > 0
    /\ priceChart.indicators.sma20
    /\ priceChart.indicators.volume
    /\ priceChart.chartRef.current
    /\ priceChart.error = NoValidData

(* --------------------------- MACD warm-up ------------------------------- *)

\* calculateMACD returned, with macd, signal and histogram all non-empty
CompleteMACD ==
    /\ ret.status = "ok"
    /\ Len(ret.value.macd) > 0
    /\ Len(ret.value.signal) > 0
    /\ Len(ret.value.histogram) > 0

\* C21 (as stated): for fastPeriod < slowPeriod, calculateMACD returns a
\* complete result (non-empty macd, signal and histogram, without failing)
\* exactly when n >= slowPeriod + signalPeriod, and fails for every shorter
\* series.
C21_WarmUpSlowPlusSignal ==
    (call.fn = "calculateMACD" /\ call.fastPeriod < call.slowPeriod) =>
        /\ CompleteMACD <=> Len(data) >= call.slowPeriod + call.signalPeriod
        /\ ~CompleteMACD => ret.status = "throw"

\* C21 (amended): for fastPeriod < slowPeriod, calculateMACD returns a
\* complete result exactly when n >= slowPeriod + signalPeriod - 1, and fails
\* for every shorter series.
C21_WarmUpSlowPlusSignalMinusOne ==
    (call.fn = "calculateMACD" /\ call.fastPeriod < call.slowPeriod) =>
        /\ CompleteMACD <=> Len(data) >= call.slowPeriod + call.signalPeriod - 1
        /\ ~CompleteMACD => ret.status = "throw"

\* a complete MACD on a series of exactly slowPeriod + signalPeriod - 1 points,
\* the signal line seeded from two macd values
C21_Witness ==
    /\ call.fn = "calculateMACD"
    /\ call.fastPeriod < call.slowPeriod
    /\ call.signalPeriod >= 2
    /\ Len(data) = call.slowPeriod + call.signalPeriod - 1
    /\ CompleteMACD
    /\ Len(ret.value.signal) = 1

(* ------------------- the copies of calculateSMA / EMA ------------------- *)

\* the series with its closes as numbers, as the components hold it
AsNumbers(d) == [i \in 1..Len(d) |-> [time |-> d[i].time, close |-> Num(d[i].close)]]

\* C22: the calculateSMA that emits {time, value: null} for the warm-up
\* indices and filters them out returns the same points (length, times,
\* values) as the two calculateSMA that skip those indices, for every series
\* and period; the three calculateEMA return the same output.
C22_CopiesAgree ==
    /\ call.fn = "calculateSMA" =>
          /\ ret = ChartCalculateSMA(AsNumbers(data), call.period)
          /\ ret = LocalCalculateSMA(AsNumbers(data), call.period)
    /\ call.fn = "calculateEMA" =>
          /\ ret = ChartCalculateEMA(AsNumbers(data), call.period)
          /\ ret = LocalCalculateEMA(AsNumbers(data), call.period)

\* an SMA whose warm-up indices were emitted as null and filtered out
C22_Witness ==
    /\ call.fn = "calculateSMA"
    /\ call.period >= 2
    /\ ret.status = "ok"
    /\ Len(ret.value) >= 1
    /\ LET r == LocalSMALoop(AsNumbers(data), call.period, 0, <<>>)
       IN  /\ r.status = "ok"
           /\ Len(r.value) = Len(data)
           /\ At(r.value, 0).value = Null
           /\ Len(SelectSeq(r.value, NotNull)) = Len(ret.value)

(* ------------------ MACD joins on an adapter series --------------------- *)

\* C23: for every series the adapter can output, the lookups by time in
\* calculateMACD agree with the alignment by position: with fastPeriod <=
\* slowPeriod, slowEMA[i] is paired with fastEMA[i + (slowPeriod - fastPeriod)]
\* and signalLine[i] with macdLine[i + signalPeriod - 1].
C23_LookupsAgreeWithPositions ==
    (call.fn = "calculateMACD" /\ call.fastPeriod <= call.slowPeriod /\ ret.status = "ok") =>
        LET fastEMA == calculateEMA(data, call.fastPeriod).value
            slowEMA == calculateEMA(data, call.slowPeriod).value
            shift == call.slowPeriod - call.fastPeriod
            m == ret.value.macd
            sig == ret.value.signal
            h == ret.value.histogram
        IN  /\ Len(m) = Len(slowEMA)
            /\ \A i \in 0..(Len(m) - 1) :
                  At(m, i).value = Sub(At(fastEMA, i + shift).value, At(slowEMA, i).value)
            /\ Len(h) = Len(sig)
            /\ \A i \in 0..(Len(h) - 1) :
                  At(h, i).value =
                      Sub(At(m, i + call.signalPeriod - 1).value, At(sig, i).value)

(* --------------------- indicators on a short series --------------------- *)

\* the last run of the effect got a series with points from the adapter
AdapterGaveSeries ==
    /\ priceChart.formattedData.status = "ok"
    /\ Len(priceChart.formattedData.value) > 0

\* C24: with an indicator checkbox (SMA 20/50/200, EMA 12/26) enabled while
\* the formatted series has fewer points than the indicator's period, the
\* chart is not in the error state: the main price series is displayed and
\* the line of that indicator is not added.
C24_ShortSeriesIndicatorHarmless ==
    AdapterGaveSeries =>
        \A i \in 1..Len(Overlays) :
            (/\ priceChart.indicators[Overlays[i].key]
             /\ Len(priceChart.formattedData.value) < Overlays[i].period) =>
                /\ priceChart.error = NoError
                /\ priceChart.chartRef.main = priceChart.chartType
                /\ Overlays[i].key \notin priceChart.chartRef.lines

(* ------------------------ leaving the error state ----------------------- *)

\* formatChartData returns a series with points for the history h
GivesSeries(h) ==
    \A f \in formatChartData(h) : f.status = "ok" /\ Len(f.value) > 0

\* C25: when a mounted PriceChart in the error state gets an assetData whose
\* history has a valid record, the next run of the main effect clears the
\* error and creates and displays a chart.
C25_ErrorStateLeft ==
    [][(/\ priceChart.mounted
        /\ priceChart.error # NoError
        /\ priceChart'.mounted
        /\ priceChart'.assetData # priceChart.assetData
        /\ priceChart'.assetData.loaded
        /\ GivesSeries(priceChart'.assetData.historical_data)) =>
            /\ priceChart'.error = NoError
            /\ priceChart'.chartRef.current
            /\ priceChart'.chartRef.main = priceChart'.chartType]_vars

(* ---------------------------- chart instances --------------------------- *)

\* C26: at most one chart created by createChart is live at any time, and
\* once the component has unmounted every created chart has been removed.
C26_ChartsRemoved ==
    /\ priceChart.liveCharts <= 1
    /\ ~priceChart.mounted => priceChart.liveCharts = 0

(* ------------------------------ drawings -------------------------------- *)

\* the prices of the saved drawings, in order
SavedPrices(st) == [i \in 1..Len(st.savedDrawings) |-> st.savedDrawings[i].price]

\* C27: after any sequence of add-line clicks, indicator toggles and
\* chart-type changes (drawing-mode changes and clearAllDrawings included) the
\* newly created main series has exactly one price line per savedDrawings
\* entry, of the same price; clearAllDrawings leaves zero lines and no drawing
\* mode.
C27_DrawingsPersist ==
    [][/\ priceChart'.chartRef.main # "none" =>
             priceChart'.chartRef.priceLines = SavedPrices(priceChart')
       /\ (Len(priceChart.savedDrawings) > 0 /\ Len(priceChart'.savedDrawings) = 0) =>
             /\ priceChart'.chartRef.priceLines = <<>>
             /\ priceChart'.drawingMode = "null"]_vars

\* C28: a search request is issued only for the current query when it has at
\* least two characters and its timer ran out; results that are stored or
\* shown are the response to the current searchQuery; while the query is
\* shorter than two characters the results are empty and hidden
C28_ResultsAnswerCurrentQuery ==
    [][/\ Len(tradingScreen'.requests) > Len(tradingScreen.requests) =>
            /\ tradingScreen.timer = Timer(tradingScreen.searchQuery)
            /\ Len(tradingScreen.searchQuery) >= 2
            /\ tradingScreen'.requests =
                   Append(tradingScreen.requests, tradingScreen.searchQuery)
       /\ (tradingScreen'.searchResults # {} \/ DropdownShown(tradingScreen')) =>
            tradingScreen'.searchResults = SearchAssets(tradingScreen'.searchQuery)
       /\ Len(tradingScreen'.searchQuery) < 2 =>
            /\ tradingScreen'.searchResults = {}
            /\ ~tradingScreen'.showResults]_vars

\* the step posts a purchase or sell request
RequestSent == tradingModal'.request # NoRequest /\ tradingModal.request = NoRequest

\* C29: every request posted by handleSubmit carries a desired_amount that is
\* greater than 0 and, for a purchase, at most the balance; none is posted
\* when the entered amount is not a positive number, when a purchase amount
\* exceeds the balance, or when a conversion is needed and no converted price
\* is there
C29_RequestAmountPositiveWithinBalance ==
    [][RequestSent =>
          LET desired == tradingModal'.request.desired_amount
              entered == ParseDecimal(tradingModal.amount)
              balance == ParseDecimal(tradingModal.balance)
          IN  /\ IsFinite(desired) /\ Gt(desired, Num(0))
              /\ tradingModal'.request.endpoint = "purchase" => Leq(desired, balance)
              /\ IsFinite(entered) /\ Gt(entered, Num(0))
              /\ tradingModal.action = "buy" => Leq(entered, balance)
              /\ tradingModal.needsConversion => tradingModal.convertedPrice # Null]_vars

\* both keys of the App are in localStorage
KeysPresent == app.storage.currentSimulationId # NoItem /\ app.storage.lastScreen # "null"

\* C30: the keys currentSimulationId and lastScreen are both present, with
\* lastScreen = 'view', or both absent; while the App is not loading they are
\* present exactly when currentSimulation is not null, and then
\* currentSimulationId is the id of currentSimulation; the screen is 'view' or
\* 'trading' only while currentSimulation is not null
C30_StorageMatchesSimulation ==
    /\ \/ KeysPresent /\ app.storage.lastScreen = "view"
       \/ app.storage = NoStorage
    /\ ~app.loading =>
          /\ KeysPresent <=> app.currentSimulation # NoSimulation
          /\ KeysPresent =>
                app.storage.currentSimulationId.text = ToStr(app.currentSimulation.id)
    /\ app.currentScreen \in {"view", "trading"} => app.currentSimulation # NoSimulation

====
